---------------------------- MODULE Spec2Model ----------------------------
(***************************************************************************)
(* Club directory API: the row decoders, the slug generator and the       *)
(* active-record index of api/clubs.js (list) and api/club-data.js        *)
(* (lookup by code, three revisions).                                     *)
(*                                                                         *)
(* A JavaScript string is a sequence of one-character strings; the value  *)
(* undefined (an absent cell) is Undef.  A JavaScript number is a record  *)
(* [m, e] standing for m * 10^(-e), and NaN is the value NaN.             *)
(***************************************************************************)
EXTENDS Integers, Sequences, FiniteSets, TLC

VARIABLES
    hub,        \* the values of sheet 'Dynamic Club Page Hub' (or NoValues)
    clubsSheet, \* the values of sheet 'Clubs' (or NoValues)
    req,        \* the request being served: [endpoint, method, code]
    pc,         \* "idle" | "fetching" | "done"
    reads,      \* data-source reads made for the request being served
    resps,      \* the responses sent for the request being served
    sIn,        \* argument of a pure function under check
    sOut        \* its result

vars == <<hub, clubsSheet, req, pc, reads, resps, sIn, sOut>>

-----------------------------------------------------------------------------
(* Bounds *)

MaxRows == 2
MaxLen == 3

-----------------------------------------------------------------------------
(* JavaScript values *)

Undef == <<"undefined">>
NaN == [nan |-> TRUE]

\* JavaScript truthiness of a cell or string: undefined and '' are falsy.
Truthy(v) == v # Undef /\ v # <<>>

\* a || b on strings
Or(a, b) == IF Truthy(a) THEN a ELSE b

\* row[index]
Cell(row, index) == IF index < Len(row) THEN row[index + 1] ELSE Undef

UpperChars == <<"A", "B", "C", "D", "E", "F", "G", "H", "I", "J", "K", "L", "M",
                "N", "O", "P", "Q", "R", "S", "T", "U", "V", "W", "X", "Y", "Z">>
LowerChars == <<"a", "b", "c", "d", "e", "f", "g", "h", "i", "j", "k", "l", "m",
                "n", "o", "p", "q", "r", "s", "t", "u", "v", "w", "x", "y", "z">>
DigitChars == <<"0", "1", "2", "3", "4", "5", "6", "7", "8", "9">>

Range(f) == {f[i] : i \in DOMAIN f}

LowerChar(c) ==
    IF \E i \in 1..26 : UpperChars[i] = c
    THEN LowerChars[CHOOSE i \in 1..26 : UpperChars[i] = c]
    ELSE c

\* faulty variant: the text compared in the letter case it has
toLowerCaseKept(s) == s

\* String.prototype.toLowerCase
toLowerCase(s) == [i \in 1..Len(s) |-> LowerChar(s[i])]

\* the character class [a-z0-9]
IsSlugChar(c) == c \in Range(LowerChars) \cup Range(DigitChars)

\* .replace(/[^a-z0-9]+/g, '-'): every maximal run outside [a-z0-9] becomes one '-'
RECURSIVE replaceRuns(_)
replaceRuns(s) ==
    IF s = <<>> THEN <<>>
    ELSE IF IsSlugChar(s[1]) THEN <<s[1]>> \o replaceRuns(Tail(s))
    ELSE IF Len(s) > 1 /\ ~IsSlugChar(s[2]) THEN replaceRuns(Tail(s))
    ELSE <<"-">> \o replaceRuns(Tail(s))

\* .replace(/(^-|-$)/, '') without the g flag: only the first match goes
stripDashesFirstOnly(s) ==
    IF s # <<>> /\ s[1] = "-" THEN Tail(s)
    ELSE IF s # <<>> /\ s[Len(s)] = "-" THEN SubSeq(s, 1, Len(s) - 1)
    ELSE s

\* .replace(/(^-|-$)/g, ''): a '-' at the start and a '-' at the end are removed
stripDashes(s) ==
    LET a == IF s # <<>> /\ s[1] = "-" THEN Tail(s) ELSE s
    IN  IF a # <<>> /\ a[Len(a)] = "-" THEN SubSeq(a, 1, Len(a) - 1) ELSE a

\* x?.toString().toLowerCase().replace(/[^a-z0-9]+/g, '-').replace(/(^-|-$)/g, '')
urlIdentifier(x) ==
    IF x = Undef THEN Undef ELSE stripDashes(replaceRuns(toLowerCase(x)))


-----------------------------------------------------------------------------
(* Numbers: parseFloat and parseInt on a cell.  The exponent part of a     *)
(* decimal literal and the literal Infinity are not modelled: no numeric   *)
(* cell of the model holds them.                                           *)

Num(n) == [m |-> n, e |-> 0]

RECURSIVE normalise(_)
normalise(n) ==
    IF n.m = 0 THEN Num(0)
    ELSE IF n.e > 0 /\ n.m % 10 = 0 THEN normalise([m |-> n.m \div 10, e |-> n.e - 1])
    ELSE n

WhiteSpace == {" ", "\t", "\n"}

RECURSIVE skipWhiteSpace(_)
skipWhiteSpace(s) ==
    IF s # <<>> /\ s[1] \in WhiteSpace THEN skipWhiteSpace(Tail(s)) ELSE s

IsDigit(c) == c \in Range(DigitChars)
DigitVal(c) == (CHOOSE i \in 1..10 : DigitChars[i] = c) - 1

\* length of the longest prefix of decimal digits
RECURSIVE digitCount(_)
digitCount(s) ==
    IF s # <<>> /\ IsDigit(s[1]) THEN 1 + digitCount(Tail(s)) ELSE 0

RECURSIVE digitsValue(_, _)
digitsValue(s, acc) ==
    IF s = <<>> THEN acc ELSE digitsValue(Tail(s), 10 * acc + DigitVal(s[1]))

HexChars == <<"0", "1", "2", "3", "4", "5", "6", "7", "8", "9", "a", "b", "c", "d", "e", "f">>
IsHex(c) == LowerChar(c) \in Range(HexChars)
HexVal(c) == (CHOOSE i \in 1..16 : HexChars[i] = LowerChar(c)) - 1

RECURSIVE hexCount(_)
hexCount(s) ==
    IF s # <<>> /\ IsHex(s[1]) THEN 1 + hexCount(Tail(s)) ELSE 0

RECURSIVE hexValue(_, _)
hexValue(s, acc) ==
    IF s = <<>> THEN acc ELSE hexValue(Tail(s), 16 * acc + HexVal(s[1]))

\* the sign and the rest of a trimmed numeric string
SignOf(t) == IF t # <<>> /\ t[1] = "-" THEN -1 ELSE 1
Unsigned(t) == IF t # <<>> /\ t[1] \in {"-", "+"} THEN Tail(t) ELSE t

\* parseFloat(v): the longest decimal prefix, NaN when there is none
parseFloat(v) ==
    IF v = Undef THEN NaN
    ELSE
    LET t == skipWhiteSpace(v)
        u == Unsigned(t)
        ni == digitCount(u)
        afterInt == SubSeq(u, ni + 1, Len(u))
        hasDot == afterInt # <<>> /\ afterInt[1] = "."
        nf == IF hasDot THEN digitCount(Tail(afterInt)) ELSE 0
        digits == SubSeq(u, 1, ni) \o (IF hasDot THEN SubSeq(afterInt, 2, nf + 1) ELSE <<>>)
    IN  IF ni = 0 /\ nf = 0 THEN NaN
        ELSE normalise([m |-> SignOf(t) * digitsValue(digits, 0), e |-> nf])

\* parseInt(v): the longest integer prefix (radix 16 after 0x), NaN when there is none
parseInt(v) ==
    IF v = Undef THEN NaN
    ELSE
    LET t == skipWhiteSpace(v)
        u == Unsigned(t)
        isHex == Len(u) >= 2 /\ u[1] = "0" /\ u[2] \in {"x", "X"}
        h == SubSeq(u, 3, Len(u))
        ni == digitCount(u)
    IN  IF isHex
        THEN IF hexCount(h) = 0 THEN NaN
             ELSE Num(SignOf(t) * hexValue(SubSeq(h, 1, hexCount(h)), 0))
        ELSE IF ni = 0 THEN NaN
             ELSE Num(SignOf(t) * digitsValue(SubSeq(u, 1, ni), 0))

\* n || d on numbers: NaN and 0 are falsy
NumOr(n, d) == IF n = NaN \/ n.m = 0 THEN d ELSE n

-----------------------------------------------------------------------------
(* String helpers of the decoders *)

Sentinel == <<"N", "/", "A">>
UnknownClub == <<"U", "n", "k", "n", "o", "w", "n", " ", "C", "l", "u", "b">>
DefaultActive == <<"n", "o">>
DefaultLogo == <<"[logo]">>   \* the default emoji literal, one opaque character
AllLevels == <<"A", "l", "l", " ", "l", "e", "v", "e", "l", "s">>
Featured == <<"F", "e", "a", "t", "u", "r", "e", "d">>
CommaSpace == <<",", " ">>

\* String.prototype.includes
includes(s, sub) ==
    \E i \in 1..(Len(s) - Len(sub) + 1) : SubSeq(s, i, i + Len(sub) - 1) = sub

RECURSIVE trimEnd(_)
trimEnd(s) ==
    IF s # <<>> /\ s[Len(s)] \in WhiteSpace THEN trimEnd(SubSeq(s, 1, Len(s) - 1)) ELSE s

\* String.prototype.trim
trim(s) == trimEnd(skipWhiteSpace(s))

\* String.prototype.split(','): cur is the part being read
RECURSIVE splitFrom(_, _)
splitFrom(s, cur) ==
    IF s = <<>> THEN <<cur>>
    ELSE IF s[1] = "," THEN <<cur>> \o splitFrom(Tail(s), <<>>)
    ELSE splitFrom(Tail(s), Append(cur, s[1]))

split(s) == splitFrom(s, <<>>)

\* Array.prototype.join(sep)
RECURSIVE join(_, _)
join(arr, sep) ==
    IF arr = <<>> THEN <<>>
    ELSE IF Len(arr) = 1 THEN arr[1]
    ELSE arr[1] \o sep \o join(Tail(arr), sep)

\* arr.filter(Boolean)
filterBoolean(arr) == SelectSeq(arr, Truthy)

\* text.split(',').map(x => x.trim())
splitTrim(text) == [i \in 1..Len(split(text)) |-> trim(split(text)[i])]

\* faulty variant: the cell read without the '' default for an absent cell
safeGetAbsent(row, index) ==
    LET value == Cell(row, index)
    IN  IF value = Sentinel THEN <<>> ELSE value

-----------------------------------------------------------------------------
(* The current single-club decoder: parseClubData with the N/A sentinel    *)

safeGet(row, index) ==
    LET value == Or(Cell(row, index), <<>>)
    IN  IF value = Sentinel THEN <<>> ELSE value

safeGetFloat(row, index) ==
    LET value == Or(Cell(row, index), <<>>)
    IN  IF value = Sentinel \/ value = <<>> THEN Num(0) ELSE NumOr(parseFloat(value), Num(0))

\* faulty variant: the integer fields read without truncation
safeGetIntAsFloat(row, index) ==
    LET value == Or(Cell(row, index), <<>>)
    IN  IF value = Sentinel \/ value = <<>> THEN Num(0) ELSE NumOr(parseFloat(value), Num(0))

safeGetInt(row, index) ==
    LET value == Or(Cell(row, index), <<>>)
    IN  IF value = Sentinel \/ value = <<>> THEN Num(0) ELSE NumOr(parseInt(value), Num(0))

\* for (let i = 0; i < 4; i++) over columns 19 + 3i
RECURSIVE parseSessions(_, _, _)
parseSessions(row, i, acc) ==
    IF i >= 4 THEN acc
    ELSE LET baseIndex == 19 + (i * 3)
             session == [time |-> safeGet(row, baseIndex),
                         date |-> safeGet(row, baseIndex + 1),
                         type |-> safeGet(row, baseIndex + 2)]
         IN  parseSessions(row, i + 1,
                 IF Truthy(session.time) /\ Truthy(session.date)
                 THEN Append(acc, session) ELSE acc)

\* for (let i = 0; i < 3; i++) over columns 31 + 3i
RECURSIVE parseTestimonials(_, _, _)
parseTestimonials(row, i, acc) ==
    IF i >= 3 THEN acc
    ELSE LET baseIndex == 31 + (i * 3)
             testimonial == [name |-> safeGet(row, baseIndex),
                             rating |-> safeGetFloat(row, baseIndex + 1),
                             text |-> safeGet(row, baseIndex + 2)]
         IN  parseTestimonials(row, i + 1,
                 IF Truthy(testimonial.name) /\ Truthy(testimonial.text)
                 THEN Append(acc, [author |-> testimonial.name,
                                   rating |-> testimonial.rating,
                                   text |-> testimonial.text])
                 ELSE acc)

\* faulty variant: a benefit equal to one already pushed is left out
RECURSIVE parseBenefitsDistinct(_, _, _)
parseBenefitsDistinct(row, i, acc) ==
    IF i >= 6 THEN acc
    ELSE LET baseIndex == 40 + (i * 3)
             benefit == [icon |-> safeGet(row, baseIndex),
                         title |-> safeGet(row, baseIndex + 1),
                         description |-> safeGet(row, baseIndex + 2)]
         IN  parseBenefitsDistinct(row, i + 1,
                 IF Truthy(benefit.title) /\ Truthy(benefit.description)
                    /\ \A k \in 1..Len(acc) : acc[k] # benefit
                 THEN Append(acc, benefit) ELSE acc)

\* for (let i = 0; i < 6; i++) over columns 40 + 3i
RECURSIVE parseBenefits(_, _, _)
parseBenefits(row, i, acc) ==
    IF i >= 6 THEN acc
    ELSE LET baseIndex == 40 + (i * 3)
             benefit == [icon |-> safeGet(row, baseIndex),
                         title |-> safeGet(row, baseIndex + 1),
                         description |-> safeGet(row, baseIndex + 2)]
         IN  parseBenefits(row, i + 1,
                 IF Truthy(benefit.title) /\ Truthy(benefit.description)
                 THEN Append(acc, benefit) ELSE acc)

\* faulty variant: the FAQ slots read from column 59 on, over savings_amount
RECURSIVE parseFaqsFrom59(_, _, _)
parseFaqsFrom59(row, i, acc) ==
    IF i >= 5 THEN acc
    ELSE LET baseIndex == 59 + (i * 2)
             faq == [question |-> safeGet(row, baseIndex),
                     answer |-> safeGet(row, baseIndex + 1)]
         IN  parseFaqsFrom59(row, i + 1,
                 IF Truthy(faq.question) /\ Truthy(faq.answer)
                 THEN Append(acc, faq) ELSE acc)

\* for (let i = 0; i < 5; i++) over columns 60 + 2i
RECURSIVE parseFaqs(_, _, _)
parseFaqs(row, i, acc) ==
    IF i >= 5 THEN acc
    ELSE LET baseIndex == 60 + (i * 2)
             faq == [question |-> safeGet(row, baseIndex),
                     answer |-> safeGet(row, baseIndex + 1)]
         IN  parseFaqs(row, i + 1,
                 IF Truthy(faq.question) /\ Truthy(faq.answer)
                 THEN Append(acc, faq) ELSE acc)

\* the object literal of parseClubData, groups filled by the four loops
parseClubDataFields(row) ==
    [club_id |-> safeGet(row, 0),
     club_name |-> Or(safeGet(row, 1), UnknownClub),
     active |-> Or(safeGet(row, 2), DefaultActive),
     page_url |-> safeGet(row, 3),
     booking_url |-> safeGet(row, 4),
     activity_type |-> safeGet(row, 5),
     club_logo_emoji |-> Or(safeGet(row, 6), DefaultLogo),
     location |-> safeGet(row, 7),
     monthly_fee_amount |-> safeGetFloat(row, 8),
     monthly_fee_text |-> safeGet(row, 9),
     star_rating |-> safeGet(row, 10),
     numeric_rating |-> safeGetFloat(row, 11),
     rating_out_of |-> NumOr(safeGetFloat(row, 12), Num(5)),
     member_count |-> safeGetInt(row, 13),
     ranking_position |-> safeGetInt(row, 14),
     ranking_category |-> safeGet(row, 15),
     sessions_per_week |-> safeGetInt(row, 16),
     average_attendance |-> safeGetInt(row, 17),
     member_growth |-> safeGet(row, 18),
     sessions |-> parseSessions(row, 0, <<>>),
     testimonials |-> parseTestimonials(row, 0, <<>>),
     benefits |-> parseBenefits(row, 0, <<>>),
     pay_per_session_price |-> safeGetFloat(row, 58),
     savings_amount |-> safeGetFloat(row, 59),
     faqs |-> parseFaqs(row, 0, <<>>),
     club_bio |-> safeGet(row, 70),
     coach_name |-> safeGet(row, 71),
     coach_role |-> safeGet(row, 72),
     coach_avatar |-> safeGet(row, 73),
     facilities_list |-> safeGet(row, 74),
     tags_who |-> safeGet(row, 75),
     tags_vibe |-> safeGet(row, 76),
     tags_accessibility |-> safeGet(row, 77),
     email |-> safeGet(row, 78),
     phone |-> safeGet(row, 79),
     whatsapp |-> safeGet(row, 80),
     instagram |-> safeGet(row, 81),
     address |-> safeGet(row, 82),
     hero_background_gradient |-> safeGet(row, 83),
     image_url |-> Or(safeGet(row, 84), <<>>)]

\* club.club_code of parseClubData: from the decoded club_id or club_name
parseClubCode(club) ==
    Or(urlIdentifier(Or(club.club_id, club.club_name)), <<>>)

\* faulty variant: tags_array appended to the array the record already has
parseClubComputedAppending(club) ==
    [tags_array |-> (IF "tags_array" \in DOMAIN club THEN club.tags_array ELSE <<>>)
                        \o filterBoolean(<<club.tags_who, club.tags_vibe, club.tags_accessibility>>),
     facilities_array |-> IF Truthy(club.facilities_list)
                          THEN splitTrim(club.facilities_list) ELSE <<>>,
     is_beginner_friendly |-> includes(toLowerCase(Or(club.tags_who, <<>>)), <<"b", "e", "g", "i", "n", "n", "e", "r">>),
     is_wheelchair_accessible |->
         includes(toLowerCase(Or(club.tags_accessibility, <<>>)), <<"w", "h", "e", "e", "l", "c", "h", "a", "i", "r">>),
     is_all_ages |-> includes(toLowerCase(Or(club.tags_who, <<>>)), <<"a", "l", "l", " ", "a", "g", "e", "s">>),
     review_count |-> Num(Len(club.testimonials))]

\* "Add computed properties" and "Calculate review count" of parseClubData
parseClubComputed(club) ==
    [tags_array |-> filterBoolean(<<club.tags_who, club.tags_vibe, club.tags_accessibility>>),
     facilities_array |-> IF Truthy(club.facilities_list)
                          THEN splitTrim(club.facilities_list) ELSE <<>>,
     is_beginner_friendly |-> includes(toLowerCase(Or(club.tags_who, <<>>)), <<"b", "e", "g", "i", "n", "n", "e", "r">>),
     is_wheelchair_accessible |->
         includes(toLowerCase(Or(club.tags_accessibility, <<>>)), <<"w", "h", "e", "e", "l", "c", "h", "a", "i", "r">>),
     is_all_ages |-> includes(toLowerCase(Or(club.tags_who, <<>>)), <<"a", "l", "l", " ", "a", "g", "e", "s">>),
     review_count |-> Num(Len(club.testimonials))]

\* faulty variant: instructor_bio copied from the coach's name
parseClubLegacyBioFromName(club, tags_array) ==
    [monthly_fee |-> club.monthly_fee_amount,
     description |-> club.club_bio,
     rating |-> club.numeric_rating,
     user_rating |-> club.numeric_rating,
     total_members |-> club.member_count,
     age_groups |-> club.tags_who,
     skill_levels |-> AllLevels,
     tags |-> join(tags_array, CommaSpace),
     facilities |-> club.facilities_list,
     instructor_name |-> club.coach_name,
     instructor_bio |-> club.coach_name,
     featured |-> (club.ranking_category = Featured),
     website |-> <<>>]

\* "Legacy fields for compatibility" of parseClubData, tags from club.tags_array
parseClubLegacy(club, tags_array) ==
    [monthly_fee |-> club.monthly_fee_amount,
     description |-> club.club_bio,
     rating |-> club.numeric_rating,
     user_rating |-> club.numeric_rating,
     total_members |-> club.member_count,
     age_groups |-> club.tags_who,
     skill_levels |-> AllLevels,
     tags |-> join(tags_array, CommaSpace),
     facilities |-> club.facilities_list,
     instructor_name |-> club.coach_name,
     instructor_bio |-> club.coach_role,
     featured |-> (club.ranking_category = Featured),
     website |-> <<>>]

\* the assignments parseClubData makes to the club object after the group loops:
\* each one overwrites or adds a field and reads only fields of the literal
parseClubDerive(club) ==
    LET computed == parseClubComputed(club)
    IN  [club_code |-> parseClubCode(club)]
            @@ parseClubLegacy(club, computed.tags_array) @@ computed @@ club

\* parseClubData(row): the literal, then the computed and the legacy fields
parseClubData(row) == parseClubDerive(parseClubDataFields(row))

-----------------------------------------------------------------------------
(* The decoders without sentinel handling: parseClubData of the previous   *)
(* club-data.js revision and the inline decode of clubs.js                 *)

Fitness == <<"f", "i", "t", "n", "e", "s", "s">>
UnsplashPrefix == <<"h", "t", "t", "p", "s", ":", "/", "/", "s", "o", "u", "r", "c", "e", ".", "u", "n", "s", "p", "l", "a", "s", "h", ".", "c", "o", "m", "/", "f", "e", "a", "t", "u", "r", "e", "d", "/", "?">>

\* row[i] || ''
rawString(row, index) == Or(Cell(row, index), <<>>)
\* parseFloat(row[i]) || 0
rawFloat(row, index) == NumOr(parseFloat(Cell(row, index)), Num(0))
\* parseInt(row[i]) || 0
rawInt(row, index) == NumOr(parseInt(Cell(row, index)), Num(0))

isCompleteSession(x) == Truthy(x.time) /\ Truthy(x.date)
isCompleteTestimonial(t) == Truthy(t.name) /\ Truthy(t.text)
isCompleteBenefit(b) == Truthy(b.title) /\ Truthy(b.description)
isCompleteFaq(f) == Truthy(f.question) /\ Truthy(f.answer)

\* the object literal of the previous parseClubData
parseClubDataV2Fields(row) ==
    [
     club_id |-> rawString(row, 0),
     club_name |-> Or(Cell(row, 1), UnknownClub),
     active |-> Or(Cell(row, 2), DefaultActive),
     page_url |-> rawString(row, 3),
     booking_url |-> rawString(row, 4),
     activity_type |-> rawString(row, 5),
     club_logo_emoji |-> Or(Cell(row, 6), DefaultLogo),
     location |-> rawString(row, 7),
     monthly_fee_amount |-> rawFloat(row, 8),
     monthly_fee_text |-> rawString(row, 9),
     star_rating |-> rawString(row, 10),
     numeric_rating |-> rawFloat(row, 11),
     rating_out_of |-> NumOr(parseFloat(Cell(row, 12)), Num(5)),
     member_count |-> rawInt(row, 13),
     ranking_position |-> rawInt(row, 14),
     ranking_category |-> rawString(row, 15),
     sessions_per_week |-> rawInt(row, 16),
     average_attendance |-> rawInt(row, 17),
     member_growth |-> rawString(row, 18),
     sessions |-> SelectSeq(<<[time |-> rawString(row, 19), date |-> rawString(row, 20), type |-> rawString(row, 21)],
                            [time |-> rawString(row, 22), date |-> rawString(row, 23), type |-> rawString(row, 24)],
                            [time |-> rawString(row, 25), date |-> rawString(row, 26), type |-> rawString(row, 27)],
                            [time |-> rawString(row, 28), date |-> rawString(row, 29), type |-> rawString(row, 30)]>>, isCompleteSession),
     testimonials |-> SelectSeq(<<[name |-> rawString(row, 31), rating |-> rawFloat(row, 32), text |-> rawString(row, 33)],
                                [name |-> rawString(row, 34), rating |-> rawFloat(row, 35), text |-> rawString(row, 36)],
                                [name |-> rawString(row, 37), rating |-> rawFloat(row, 38), text |-> rawString(row, 39)]>>, isCompleteTestimonial),
     benefits |-> SelectSeq(<<[icon |-> rawString(row, 40), title |-> rawString(row, 41), description |-> rawString(row, 42)],
                            [icon |-> rawString(row, 43), title |-> rawString(row, 44), description |-> rawString(row, 45)],
                            [icon |-> rawString(row, 46), title |-> rawString(row, 47), description |-> rawString(row, 48)],
                            [icon |-> rawString(row, 49), title |-> rawString(row, 50), description |-> rawString(row, 51)],
                            [icon |-> rawString(row, 52), title |-> rawString(row, 53), description |-> rawString(row, 54)],
                            [icon |-> rawString(row, 55), title |-> rawString(row, 56), description |-> rawString(row, 57)]>>, isCompleteBenefit),
     pay_per_session_price |-> rawFloat(row, 58),
     savings_amount |-> rawFloat(row, 59),
     faqs |-> SelectSeq(<<[question |-> rawString(row, 60), answer |-> rawString(row, 61)],
                        [question |-> rawString(row, 62), answer |-> rawString(row, 63)],
                        [question |-> rawString(row, 64), answer |-> rawString(row, 65)],
                        [question |-> rawString(row, 66), answer |-> rawString(row, 67)],
                        [question |-> rawString(row, 68), answer |-> rawString(row, 69)]>>, isCompleteFaq),
     club_bio |-> rawString(row, 70),
     coach_name |-> rawString(row, 71),
     coach_role |-> rawString(row, 72),
     coach_avatar |-> rawString(row, 73),
     facilities_list |-> rawString(row, 74),
     tags_who |-> rawString(row, 75),
     tags_vibe |-> rawString(row, 76),
     tags_accessibility |-> rawString(row, 77),
     email |-> rawString(row, 78),
     phone |-> rawString(row, 79),
     whatsapp |-> rawString(row, 80),
     instagram |-> rawString(row, 81),
     address |-> rawString(row, 82),
     hero_background_gradient |-> rawString(row, 83),
     monthly_fee |-> rawFloat(row, 8),
     description |-> rawString(row, 70),
     rating |-> rawFloat(row, 11),
     user_rating |-> rawFloat(row, 11),
     review_count |-> Num(0),
     total_members |-> rawInt(row, 13),
     age_groups |-> rawString(row, 75),
     skill_levels |-> AllLevels,
     tags |-> join(filterBoolean(<<Cell(row, 75), Cell(row, 76), Cell(row, 77)>>), CommaSpace),
     facilities |-> rawString(row, 74),
     instructor_name |-> rawString(row, 71),
     instructor_bio |-> rawString(row, 72),
     featured |-> (Cell(row, 15) = Featured),
     website |-> <<>>,
     image_url |-> UnsplashPrefix \o Or(Cell(row, 5), Fitness),
     club_code |-> Or(urlIdentifier(Or(Cell(row, 0), Cell(row, 1))), <<>>)]

\* "Add computed properties" of the previous parseClubData: the arrays from the
\* joined tags and the facilities alias
parseClubDataV2Computed(club) ==
    [tags_array |-> IF Truthy(club.tags) THEN splitTrim(club.tags) ELSE <<>>,
     facilities_array |-> IF Truthy(club.facilities) THEN splitTrim(club.facilities) ELSE <<>>,
     is_beginner_friendly |-> includes(toLowerCase(Or(club.tags_who, <<>>)), <<"b", "e", "g", "i", "n", "n", "e", "r">>),
     is_wheelchair_accessible |->
         includes(toLowerCase(Or(club.tags_accessibility, <<>>)), <<"w", "h", "e", "e", "l", "c", "h", "a", "i", "r">>),
     is_all_ages |-> includes(toLowerCase(Or(club.tags_who, <<>>)), <<"a", "l", "l", " ", "a", "g", "e", "s">>),
     review_count |-> Num(Len(club.testimonials))]

\* the previous parseClubData(row): the literal, then the computed properties
parseClubDataV2(row) ==
    LET club == parseClubDataV2Fields(row)
    IN  parseClubDataV2Computed(club) @@ club

\* club_code of clubs.js: row[0] || row[1]?.toLowerCase().replace(/[^a-z0-9]+/g, '-') || ''
clubsClubCode(row) ==
    Or(Or(Cell(row, 0),
          IF Cell(row, 1) = Undef THEN Undef ELSE replaceRuns(toLowerCase(Cell(row, 1)))),
       <<>>)

\* the club object literal built by clubs.js for one active row
clubsDecode(row) ==
    [
     club_id |-> rawString(row, 0),
     club_name |-> Or(Cell(row, 1), UnknownClub),
     active |-> Or(Cell(row, 2), DefaultActive),
     page_url |-> rawString(row, 3),
     booking_url |-> rawString(row, 4),
     activity_type |-> rawString(row, 5),
     club_logo_emoji |-> Or(Cell(row, 6), DefaultLogo),
     location |-> rawString(row, 7),
     monthly_fee_amount |-> rawFloat(row, 8),
     monthly_fee_text |-> rawString(row, 9),
     star_rating |-> rawString(row, 10),
     numeric_rating |-> rawFloat(row, 11),
     rating_out_of |-> NumOr(parseFloat(Cell(row, 12)), Num(5)),
     member_count |-> rawInt(row, 13),
     ranking_position |-> rawInt(row, 14),
     ranking_category |-> rawString(row, 15),
     sessions_per_week |-> rawInt(row, 16),
     average_attendance |-> rawInt(row, 17),
     member_growth |-> rawString(row, 18),
     session_1_time |-> rawString(row, 19),
     session_1_date |-> rawString(row, 20),
     session_1_type |-> rawString(row, 21),
     session_2_time |-> rawString(row, 22),
     session_2_date |-> rawString(row, 23),
     session_2_type |-> rawString(row, 24),
     session_3_time |-> rawString(row, 25),
     session_3_date |-> rawString(row, 26),
     session_3_type |-> rawString(row, 27),
     session_4_time |-> rawString(row, 28),
     session_4_date |-> rawString(row, 29),
     session_4_type |-> rawString(row, 30),
     testimonials |-> SelectSeq(<<[name |-> rawString(row, 31), rating |-> rawFloat(row, 32), text |-> rawString(row, 33)],
                                [name |-> rawString(row, 34), rating |-> rawFloat(row, 35), text |-> rawString(row, 36)],
                                [name |-> rawString(row, 37), rating |-> rawFloat(row, 38), text |-> rawString(row, 39)]>>, isCompleteTestimonial),
     benefits |-> SelectSeq(<<[icon |-> rawString(row, 40), title |-> rawString(row, 41), description |-> rawString(row, 42)],
                            [icon |-> rawString(row, 43), title |-> rawString(row, 44), description |-> rawString(row, 45)],
                            [icon |-> rawString(row, 46), title |-> rawString(row, 47), description |-> rawString(row, 48)],
                            [icon |-> rawString(row, 49), title |-> rawString(row, 50), description |-> rawString(row, 51)],
                            [icon |-> rawString(row, 52), title |-> rawString(row, 53), description |-> rawString(row, 54)],
                            [icon |-> rawString(row, 55), title |-> rawString(row, 56), description |-> rawString(row, 57)]>>, isCompleteBenefit),
     pay_per_session_price |-> rawFloat(row, 58),
     savings_amount |-> rawFloat(row, 59),
     faqs |-> SelectSeq(<<[question |-> rawString(row, 60), answer |-> rawString(row, 61)],
                        [question |-> rawString(row, 62), answer |-> rawString(row, 63)],
                        [question |-> rawString(row, 64), answer |-> rawString(row, 65)],
                        [question |-> rawString(row, 66), answer |-> rawString(row, 67)],
                        [question |-> rawString(row, 68), answer |-> rawString(row, 69)]>>, isCompleteFaq),
     club_bio |-> rawString(row, 70),
     coach_name |-> rawString(row, 71),
     coach_role |-> rawString(row, 72),
     coach_avatar |-> rawString(row, 73),
     facilities_list |-> rawString(row, 74),
     tags_who |-> rawString(row, 75),
     tags_vibe |-> rawString(row, 76),
     tags_accessibility |-> rawString(row, 77),
     email |-> rawString(row, 78),
     phone |-> rawString(row, 79),
     whatsapp |-> rawString(row, 80),
     instagram |-> rawString(row, 81),
     address |-> rawString(row, 82),
     hero_background_gradient |-> rawString(row, 83),
     monthly_fee |-> rawFloat(row, 8),
     description |-> rawString(row, 70),
     rating |-> rawFloat(row, 11),
     user_rating |-> rawFloat(row, 11),
     review_count |-> Num(0),
     total_members |-> rawInt(row, 13),
     age_groups |-> rawString(row, 75),
     skill_levels |-> AllLevels,
     tags |-> join(filterBoolean(<<Cell(row, 75), Cell(row, 76), Cell(row, 77)>>), CommaSpace),
     facilities |-> rawString(row, 74),
     instructor_name |-> rawString(row, 71),
     instructor_bio |-> rawString(row, 72),
     featured |-> (Cell(row, 15) = Featured),
     website |-> <<>>,
     image_url |-> UnsplashPrefix \o Or(Cell(row, 5), Fitness),
     club_code |-> clubsClubCode(row),
     is_beginner_friendly |-> includes(toLowerCase(Or(Cell(row, 75), <<>>)), <<"b", "e", "g", "i", "n", "n", "e", "r">>),
     is_wheelchair_accessible |-> includes(toLowerCase(Or(Cell(row, 77), <<>>)), <<"w", "h", "e", "e", "l", "c", "h", "a", "i", "r">>),
     is_all_ages |-> includes(toLowerCase(Or(Cell(row, 75), <<>>)), <<"a", "l", "l", " ", "a", "g", "e", "s">>)]

-----------------------------------------------------------------------------
(* The legacy decoder of the 'Clubs' sheet                                 *)

\* a + b on numbers [m, e]
addNum(a, b) ==
    LET e == IF a.e > b.e THEN a.e ELSE b.e
        scale(n) == n.m * (10 ^ (e - n.e))
    IN  normalise([m |-> scale(a) + scale(b), e |-> e])

RECURSIVE sumNums(_)
sumNums(arr) == IF arr = <<>> THEN Num(0) ELSE addNum(arr[1], sumNums(Tail(arr)))

isPositive(n) == n.m > 0

\* the object literal of the legacy parseClubData
parseClubDataLegacyFields(row) ==
    [club_id |-> rawString(row, 0),
     club_code |-> rawString(row, 1),
     club_name |-> Or(Cell(row, 2), UnknownClub),
     activity_type |-> rawString(row, 3),
     location |-> rawString(row, 4),
     address |-> rawString(row, 5),
     monthly_fee |-> rawFloat(row, 6),
     description |-> rawString(row, 7),
     image_url |-> rawString(row, 8),
     website |-> rawString(row, 9),
     phone |-> rawString(row, 10),
     email |-> rawString(row, 11),
     rating |-> rawFloat(row, 12),
     user_rating |-> rawFloat(row, 13),
     review_count |-> rawInt(row, 14),
     total_members |-> rawInt(row, 15),
     sessions_per_week |-> rawInt(row, 16),
     age_groups |-> rawString(row, 17),
     skill_levels |-> rawString(row, 18),
     tags |-> rawString(row, 19),
     facilities |-> rawString(row, 20),
     instructor_name |-> rawString(row, 21),
     instructor_bio |-> rawString(row, 22),
     active |-> Or(Cell(row, 23), DefaultActive),
     featured |-> (Cell(row, 24) = <<"y", "e", "s">>),
     booking_url |-> rawString(row, 25),
     page_url |-> rawString(row, 26),
     admin_url |-> rawString(row, 27),
     sportsmanship_score |-> rawFloat(row, 28),
     organisation_score |-> rawFloat(row, 29),
     competitiveness_score |-> rawFloat(row, 30),
     equipment_venues_score |-> rawFloat(row, 31),
     friendliness_score |-> rawFloat(row, 32),
     skill_level_score |-> rawFloat(row, 33),
     created_date |-> rawString(row, 34),
     last_updated |-> rawString(row, 35)]

\* the legacy parseClubData(row); the average is kept as the fraction sum / count
parseClubDataLegacy(row) ==
    LET club == parseClubDataLegacyFields(row)
        scores == SelectSeq(<<club.sportsmanship_score, club.organisation_score,
                              club.competitiveness_score, club.equipment_venues_score,
                              club.friendliness_score, club.skill_level_score>>, isPositive)
    IN  [tags_array |-> IF Truthy(club.tags) THEN splitTrim(club.tags) ELSE <<>>,
         facilities_array |-> IF Truthy(club.facilities) THEN splitTrim(club.facilities) ELSE <<>>,
         is_beginner_friendly |-> includes(toLowerCase(club.tags), <<"b", "e", "g", "i", "n", "n", "e", "r">>),
         is_wheelchair_accessible |-> includes(toLowerCase(club.facilities), <<"w", "h", "e", "e", "l", "c", "h", "a", "i", "r">>),
         is_all_ages |-> includes(toLowerCase(club.age_groups), <<"a", "l", "l", " ", "a", "g", "e", "s">>),
         average_performance_score |->
             IF Len(scores) > 0 THEN [sum |-> sumNums(scores), count |-> Len(scores)]
             ELSE Num(0)] @@ club

-----------------------------------------------------------------------------
(* The active-record index: the list loop, the lookup and its diagnostic   *)

Yes == <<"y", "e", "s">>

\* faulty variant: the active test without lower-casing
isActiveExact(row) == Cell(row, 2) = Yes

\* clubs.js: row[2] && row[2].toString().toLowerCase() === 'yes'
isActive(row) == Truthy(Cell(row, 2)) /\ toLowerCase(Cell(row, 2)) = Yes

\* faulty variant: the lookup accepting every row as active
lookupIsActiveAlways(row) == TRUE

\* club-data.js, inside clubRows.find: the same test on column C
lookupIsActive(row) == Truthy(Cell(row, 2)) /\ toLowerCase(Cell(row, 2)) = Yes

\* club-data.js, the filter of availableCodes: the same test on column C
diagIsActive(row) == Truthy(Cell(row, 2)) /\ toLowerCase(Cell(row, 2)) = Yes

\* faulty variant: the loop putting each club in front (unshift for push)
clubsLoopUnshift(clubRows, i, clubs) ==
    LET RECURSIVE go(_, _)
        go(k, acc) ==
            IF k > Len(clubRows) THEN acc
            ELSE go(k + 1, IF isActive(clubRows[k]) THEN <<clubsDecode(clubRows[k])>> \o acc
                           ELSE acc)
    IN  go(i + 1, clubs)

\* for (let i = 1; i < clubRows.length; i++): rows are clubRows[i], here clubRows[i + 1]
RECURSIVE clubsLoop(_, _, _)
clubsLoop(clubRows, i, clubs) ==
    IF i >= Len(clubRows) THEN clubs
    ELSE LET row == clubRows[i + 1]
         IN  clubsLoop(clubRows, i + 1,
                 IF ~isActive(row) THEN clubs ELSE Append(clubs, clubsDecode(row)))

NotFound == -1

\* faulty variant: the callback matching on the id cell alone, without the name
findCallbackIdOnly(row, index, code) ==
    IF index = 0 THEN FALSE
    ELSE IF ~lookupIsActive(row) THEN FALSE
    ELSE urlIdentifier(Cell(row, 0)) = toLowerCase(code)

\* faulty variant: the header row offered to the match like any other row
findCallbackWithHeader(row, index, code) ==
    IF ~lookupIsActive(row) THEN FALSE
    ELSE urlIdentifier(Or(Cell(row, 0), Cell(row, 1))) = toLowerCase(code)

\* faulty variant: the requested code compared in the letter case it has
findCallbackExactCase(row, index, code) ==
    IF index = 0 THEN FALSE
    ELSE IF ~lookupIsActive(row) THEN FALSE
    ELSE urlIdentifier(Or(Cell(row, 0), Cell(row, 1))) = code

\* the callback of clubRows.find for the row at index
findCallback(row, index, code) ==
    IF index = 0 THEN FALSE
    ELSE IF ~lookupIsActive(row) THEN FALSE
    ELSE urlIdentifier(Or(Cell(row, 0), Cell(row, 1))) = toLowerCase(code)

\* faulty variant: the last matching row (findLast for find)
RECURSIVE findClubRowLast(_, _, _)
findClubRowLast(clubRows, code, index) ==
    IF index >= Len(clubRows) THEN NotFound
    ELSE LET later == findClubRowLast(clubRows, code, index + 1)
         IN  IF later # NotFound THEN later
             ELSE IF findCallback(clubRows[index + 1], index, code) THEN index
             ELSE NotFound

\* clubRows.find(...): the index of the first row the callback accepts, from index on
RECURSIVE findClubRow(_, _, _)
findClubRow(clubRows, code, index) ==
    IF index >= Len(clubRows) THEN NotFound
    ELSE IF findCallback(clubRows[index + 1], index, code) THEN index
    ELSE findClubRow(clubRows, code, index + 1)

rowCode(row) == urlIdentifier(Or(Cell(row, 0), Cell(row, 1)))

\* clubRows.slice(1).filter(active).map(code).filter(Boolean)
availableCodes(clubRows) ==
    LET active == SelectSeq(Tail(clubRows), diagIsActive)
    IN  filterBoolean([i \in 1..Len(active) |-> rowCode(active[i])])

\* the 404 body of the lookup
notFoundBody(clubRows, code) ==
    [error |-> "Club not found",
     debug_info |-> [searched_code |-> code,
                     available_codes |-> availableCodes(clubRows),
                     total_active_clubs |-> Len(availableCodes(clubRows))]]

\* legacy club-data.js: the callback of clubRows.find (code in column B, active in column X)
legacyFindCallback(row, index, code) ==
    IF index = 0 THEN FALSE
    ELSE /\ Truthy(Cell(row, 1))
         /\ toLowerCase(Cell(row, 1)) = toLowerCase(code)
         /\ Cell(row, 23) = Yes

RECURSIVE legacyFindClubRow(_, _, _)
legacyFindClubRow(clubRows, code, index) ==
    IF index >= Len(clubRows) THEN NotFound
    ELSE IF legacyFindCallback(clubRows[index + 1], index, code) THEN index
    ELSE legacyFindClubRow(clubRows, code, index + 1)

legacyIsActive(row) == Cell(row, 23) = Yes

\* the 404 body of the legacy lookup
legacyNotFoundBody(clubRows, code) ==
    LET active == SelectSeq(Tail(clubRows), legacyIsActive)
    IN  [error |-> "Club not found",
         debug_info |-> [searched_code |-> code,
                         available_codes |->
                             filterBoolean([i \in 1..Len(active) |-> Cell(active[i], 1)]),
                         total_active_clubs |-> Len(active)]]

-----------------------------------------------------------------------------
(* The data source: spreadsheets.values.get over a column range            *)

ClubsRangeWidth == 84        \* 'Dynamic Club Page Hub!A:CF'
ClubDataRangeWidth == 104    \* 'Dynamic Club Page Hub!A:CZ'
ClubDataV2RangeWidth == 84   \* 'Dynamic Club Page Hub!A:CF'
LegacyRangeWidth == 30       \* 'Clubs!A:AD'

NoValues == [hasValues |-> FALSE, values |-> <<>>]

\* clubResponse.data.values: the rows of the sheet cut to the range's columns
fetchRange(sheet, width) ==
    [hasValues |-> sheet.hasValues,
     values |-> [i \in 1..Len(sheet.values) |->
                    SubSeq(sheet.values[i], 1,
                           IF Len(sheet.values[i]) < width THEN Len(sheet.values[i]) ELSE width)]]

\* faulty variant: only the absent row set is refused, not the zero-length one
noClubRowsAbsentOnly(fetched) == ~fetched.hasValues

\* !clubRows || clubRows.length === 0
noClubRows(fetched) == ~fetched.hasValues \/ Len(fetched.values) = 0

-----------------------------------------------------------------------------
(* Responses *)

Response(status, kind, body) == [status |-> status, kind |-> kind, body |-> body]

NoBody == [none |-> TRUE]
\* `Method ${req.method} Not Allowed`
MethodNotAllowed(method) == Response(405, "error", [error |-> <<"Method", method, "Not Allowed">>])
CodeRequired == Response(400, "error", [error |-> "Club code is required"])
NoClubData ==
    Response(404, "error", [error |-> "No club data found in Dynamic Club Page Hub sheet"])
LegacyNoClubData == Response(404, "error", [error |-> "No club data found in Clubs sheet"])
InternalError == Response(500, "error", [error |-> "Internal server error"])

\* what clubs.js answers once the rows are fetched
clubsResponse(fetched) ==
    IF noClubRows(fetched) THEN NoClubData
    ELSE Response(200, "clubs", clubsLoop(fetched.values, 1, <<>>))

\* what the current club-data.js answers once the rows are fetched; the seo and
\* structured_data members added to a found club are string templates over the
\* decoded record and are left out
clubDataResponse(fetched, code) ==
    IF noClubRows(fetched) THEN NoClubData
    ELSE LET index == findClubRow(fetched.values, code, 0)
         IN  IF index = NotFound
             THEN Response(404, "notFound", notFoundBody(fetched.values, code))
             ELSE Response(200, "club", parseClubData(fetched.values[index + 1]))

\* the previous club-data.js revision: the same handler over parseClubDataV2
clubDataV2Response(fetched, code) ==
    IF noClubRows(fetched) THEN NoClubData
    ELSE LET index == findClubRow(fetched.values, code, 0)
         IN  IF index = NotFound
             THEN Response(404, "notFound", notFoundBody(fetched.values, code))
             ELSE Response(200, "club", parseClubDataV2(fetched.values[index + 1]))

\* the legacy club-data.js over the 'Clubs' sheet
clubDataLegacyResponse(fetched, code) ==
    IF noClubRows(fetched) THEN LegacyNoClubData
    ELSE LET index == legacyFindClubRow(fetched.values, code, 0)
         IN  IF index = NotFound
             THEN Response(404, "notFound", legacyNotFoundBody(fetched.values, code))
             ELSE Response(200, "club", parseClubDataLegacy(fetched.values[index + 1]))

-----------------------------------------------------------------------------
(* Inputs: the sheets the data source may hold and the requests            *)

HeaderLabels == <<<<"c", "l", "u", "b", "_", "i", "d">>, <<"c", "l", "u", "b", "_", "n", "a", "m", "e">>, <<"a", "c", "t", "i", "v", "e">>>>
HeaderLikeRow == <<<<"a", "1">>, <<"G", "o">>, <<"y", "e", "s">>>>

RowFootball == <<<<>>, <<"5", "-", "a", "-", "S", "i", "d", "e", " ", "F", "o", "o", "t", "b", "a", "l", "l", "!">>, <<"y", "e", "s">>>>
RowSentinelId == <<<<"N", "/", "A">>, <<"C", "h", "e", "s", "s">>, <<"Y", "E", "S">>>>
RowUpperId == <<<<"A", "1">>, <<"C", "h", "e", "s", "s">>, <<"y", "e", "s">>>>
RowLowerId == <<<<"a", "1">>, <<"G", "o">>, <<"Y", "e", "s">>>>
RowBlank == <<<<>>, <<>>, <<"y", "e", "s">>>>
RowInactive == <<<<"a", "1">>, <<"G", "o">>, <<"n", "o">>>>
RowTrue == <<<<"b", "2">>, <<"G", "o">>, <<"t", "r", "u", "e">>>>
RowNoActiveCell == <<<<"b", "2">>, <<"G", "o">>>>
RowFull == <<<<"c", "3">>, <<"Y", "o", "g", "a", " ", "C", "o">>, <<"y", "e", "s">>, <<"/", "c", "3">>, <<>>, <<"y", "o", "g", "a">>, <<>>, <<"L", "e", "e", "d", "s">>, <<"1", "2", ".", "5", "0">>, <<"N", "/", "A">>, <<>>, <<"4", ".", "5">>, <<>>, <<"7", ".", "9">>, <<"x">>, <<"F", "e", "a", "t", "u", "r", "e", "d">>, <<>>, <<>>, <<>>, <<"6", "p", "m">>, <<"M", "o", "n">>, <<"N", "/", "A">>, <<"7", "p", "m">>, <<>>, <<>>, <<>>, <<>>, <<>>, <<>>, <<>>, <<>>, <<"A", "l">>, <<"5">>, <<"o", "k">>, <<"B", "o">>, <<"4">>, <<>>, <<"N", "/", "A">>, <<>>, <<"m", "e", "h">>, <<>>, <<"F", "u", "n">>, <<"l", "o", "t", "s">>, <<>>, <<>>, <<>>, <<>>, <<>>, <<>>, <<>>, <<>>, <<>>, <<>>, <<>>, <<>>, <<>>, <<>>, <<>>, <<>>, <<>>, <<"Q">>, <<"A">>, <<"Q", "2">>, <<>>, <<>>, <<>>, <<>>, <<>>, <<>>, <<>>, <<"b", "i", "o">>, <<"C", "y">>, <<>>, <<>>, <<"g", "y", "m", ",", " ", "p", "o", "o", "l", ",", ",">>, <<"B", "e", "g", "i", "n", "n", "e", "r", " ", "F", "r", "i", "e", "n", "d", "l", "y", ",", " ", "A", "l", "l", " ", "A", "g", "e", "s">>, <<>>, <<"W", "h", "e", "e", "l", "c", "h", "a", "i", "r">>, <<"a", "@", "b">>, <<>>, <<>>, <<>>, <<>>, <<>>, <<"i", "m", "g">>>>

HubRows == {RowFootball, RowSentinelId, RowUpperId, RowLowerId, RowBlank,
            RowInactive, RowTrue, RowNoActiveCell, RowFull}
HubHeaders == {HeaderLabels, HeaderLikeRow}

LegacyHeader == <<<<"i", "d">>, <<"c", "o", "d", "e">>, <<"n", "a", "m", "e">>>>
\* a header row whose code and active columns read like those of an active club
LegacyHeaderLike == <<<<"i", "d">>, <<"a", "1">>, <<"C", "l", "u", "b", " ", "n", "a", "m", "e">>, <<"y", "o", "g", "a">>, <<>>, <<>>, <<"9", ".", "5">>, <<>>, <<>>, <<>>, <<>>, <<>>, <<>>, <<>>, <<>>, <<>>, <<>>, <<>>, <<>>, <<"b", "e", "g", "i", "n", "n", "e", "r", ",", " ", "f", "u", "n">>, <<"W", "h", "e", "e", "l", "c", "h", "a", "i", "r", " ", "r", "a", "m", "p">>, <<>>, <<>>, <<"y", "e", "s">>, <<"y", "e", "s">>, <<>>, <<>>, <<>>, <<"4">>, <<"3", ".", "5">>>>
LegacyHeaders == {LegacyHeader, LegacyHeaderLike}
LegacyRows == {<<<<"7">>, <<"A", "1">>, <<"C", "l", "u", "b", " ", "A", "1">>, <<"y", "o", "g", "a">>, <<>>, <<>>, <<"9", ".", "5">>, <<>>, <<>>, <<>>, <<>>, <<>>, <<>>, <<>>, <<>>, <<>>, <<>>, <<>>, <<>>, <<"b", "e", "g", "i", "n", "n", "e", "r", ",", " ", "f", "u", "n">>, <<"W", "h", "e", "e", "l", "c", "h", "a", "i", "r", " ", "r", "a", "m", "p">>, <<>>, <<>>, <<"y", "e", "s">>, <<"y", "e", "s">>, <<>>, <<>>, <<>>, <<"4">>, <<"3", ".", "5">>>>,
               <<<<"7">>, <<"a", "1">>, <<"C", "l", "u", "b", " ", "a", "1">>, <<"y", "o", "g", "a">>, <<>>, <<>>, <<"9", ".", "5">>, <<>>, <<>>, <<>>, <<>>, <<>>, <<>>, <<>>, <<>>, <<>>, <<>>, <<>>, <<>>, <<"b", "e", "g", "i", "n", "n", "e", "r", ",", " ", "f", "u", "n">>, <<"W", "h", "e", "e", "l", "c", "h", "a", "i", "r", " ", "r", "a", "m", "p">>, <<>>, <<>>, <<"Y", "E", "S">>, <<"y", "e", "s">>, <<>>, <<>>, <<>>, <<"4">>, <<"3", ".", "5">>>>,
               <<<<"7">>, <<>>, <<"C", "l", "u", "b", " ", "x">>, <<"y", "o", "g", "a">>, <<>>, <<>>, <<"9", ".", "5">>, <<>>, <<>>, <<>>, <<>>, <<>>, <<>>, <<>>, <<>>, <<>>, <<>>, <<>>, <<>>, <<"b", "e", "g", "i", "n", "n", "e", "r", ",", " ", "f", "u", "n">>, <<"W", "h", "e", "e", "l", "c", "h", "a", "i", "r", " ", "r", "a", "m", "p">>, <<>>, <<>>, <<"y", "e", "s">>, <<"y", "e", "s">>, <<>>, <<>>, <<>>, <<"4">>, <<"3", ".", "5">>>>,
               <<<<"7">>, <<"b", "2">>, <<"C", "l", "u", "b", " ", "b", "2">>, <<"y", "o", "g", "a">>, <<>>, <<>>, <<"9", ".", "5">>, <<>>, <<>>, <<>>, <<>>, <<>>, <<>>, <<>>, <<>>, <<>>, <<>>, <<>>, <<>>, <<"b", "e", "g", "i", "n", "n", "e", "r", ",", " ", "f", "u", "n">>, <<"W", "h", "e", "e", "l", "c", "h", "a", "i", "r", " ", "r", "a", "m", "p">>, <<>>, <<>>, <<"n", "o">>, <<"y", "e", "s">>, <<>>, <<>>, <<>>, <<"4">>, <<"3", ".", "5">>>>}

SeqsUpTo(S, n) == UNION {[1..k -> S] : k \in 0..n}

Sheet(rows) == [hasValues |-> TRUE, values |-> rows]

\* every sheet of up to MaxRows data rows, and the sheets one row longer over LongRows
LongRows == {RowUpperId, RowLowerId, RowTrue, RowFootball}
HubSheets ==
    {Sheet(<<h>> \o d) : h \in HubHeaders, d \in SeqsUpTo(HubRows, MaxRows)}
    \cup {Sheet(<<HeaderLabels>> \o d) : d \in [1..(MaxRows + 1) -> LongRows]}
    \cup {NoValues, Sheet(<<>>)}
LegacySheets ==
    {Sheet(<<h>> \o d) : h \in LegacyHeaders, d \in SeqsUpTo(LegacyRows, MaxRows)}
    \cup {NoValues, Sheet(<<>>)}

Methods == {"GET", "OPTIONS", "POST"}
Codes == {Undef, <<>>, <<"a", "1">>, <<"A", "1">>, <<"n", "-", "a">>, <<"c", "h", "e", "s", "s">>,
          <<"5", "-", "a", "-", "s", "i", "d", "e", "-", "f", "o", "o", "t", "b", "a", "l", "l">>, <<"5", "-", "a", "-", "s", "i", "d", "e", "-", "f", "o", "o", "t", "b", "a", "l", "l", "-">>,
          <<"c", "3">>, <<"z", "z">>}
LegacyCodes == {Undef, <<"a", "1">>, <<"A", "1">>, <<"z", "z">>}

NoRequest == [endpoint |-> "none", method |-> "none", code |-> Undef]

-----------------------------------------------------------------------------
(* The handlers.  A handler runs from the request to its await of the data *)
(* source in one step (Start), and from the data source's answer to the    *)
(* response in another (Resume); a rejected read ends in its catch block.   *)

\* faulty variant: only OPTIONS is answered before the read
MethodRejectedOptionsOnly(method) == method = "OPTIONS"

\* the method checks every handler starts with; TRUE when a response was sent
MethodRejected(method) == method # "GET"

MethodResponse(method) ==
    IF method = "OPTIONS" THEN Response(200, "end", NoBody) ELSE MethodNotAllowed(method)

Begin(endpoint, method, code) ==
    /\ pc = "idle"
    /\ req' = [endpoint |-> endpoint, method |-> method, code |-> code]
    /\ UNCHANGED <<hub, clubsSheet, sIn, sOut>>

Answer(response) ==
    /\ resps' = Append(resps, response)
    /\ pc' = "done"

AwaitRows ==
    /\ reads' = reads + 1
    /\ pc' = "fetching"
    /\ UNCHANGED resps

\* clubs.js, up to the await
ClubsStart ==
    \E method \in Methods :
        /\ Begin("clubs", method, Undef)
        /\ IF MethodRejected(method)
           THEN Answer(MethodResponse(method)) /\ UNCHANGED reads
           ELSE AwaitRows

\* club-data.js (all three revisions), up to the await
\* req.query.code is read only after the method checks: req.code stays Undef before
LookupStart(endpoint, codes) ==
    \E method \in Methods, code \in codes :
        IF MethodRejected(method)
        THEN /\ code = Undef
             /\ Begin(endpoint, method, Undef)
             /\ Answer(MethodResponse(method))
             /\ UNCHANGED reads
        ELSE /\ Begin(endpoint, method, code)
             /\ IF ~Truthy(code)
                THEN Answer(CodeRequired) /\ UNCHANGED reads
                ELSE AwaitRows

ClubDataStart == LookupStart("clubData", Codes)
ClubDataV2Start == LookupStart("clubDataV2", Codes)
ClubDataLegacyStart == LookupStart("clubDataLegacy", LegacyCodes)

Resume(endpoint, response) ==
    /\ pc = "fetching"
    /\ req.endpoint = endpoint
    /\ Answer(response)
    /\ UNCHANGED <<hub, clubsSheet, req, reads, sIn, sOut>>

ClubsResume ==
    Resume("clubs", clubsResponse(fetchRange(hub, ClubsRangeWidth)))

ClubDataResume ==
    Resume("clubData", clubDataResponse(fetchRange(hub, ClubDataRangeWidth), req.code))

ClubDataV2Resume ==
    Resume("clubDataV2", clubDataV2Response(fetchRange(hub, ClubDataV2RangeWidth), req.code))

ClubDataLegacyResume ==
    Resume("clubDataLegacy",
           clubDataLegacyResponse(fetchRange(clubsSheet, LegacyRangeWidth), req.code))

\* the data source rejects the read: the awaited promise of values.get rejects
SourceRejects ==
    /\ pc = "fetching"
    /\ pc' = "rejected"
    /\ UNCHANGED <<hub, clubsSheet, req, reads, resps, sIn, sOut>>

\* faulty variant: a success response with what was built so far, then the 500
FetchFailsAfterPartial ==
    /\ pc = "rejected"
    /\ resps' = resps \o <<Response(200, "clubs", <<>>), InternalError>>
    /\ pc' = "done"
    /\ UNCHANGED <<hub, clubsSheet, req, reads, sIn, sOut>>

\* the rejection is thrown at the await: the handler's catch block answers 500
FetchFails ==
    /\ pc = "rejected"
    /\ Answer(InternalError)
    /\ UNCHANGED <<hub, clubsSheet, req, reads, sIn, sOut>>

\* the request is over; the next one starts from a fresh invocation
NextRequest ==
    /\ pc = "done"
    /\ pc' = "idle"
    /\ req' = NoRequest
    /\ reads' = 0
    /\ resps' = <<>>
    /\ UNCHANGED <<hub, clubsSheet, sIn, sOut>>

Init ==
    /\ \/ hub \in HubSheets /\ clubsSheet = NoValues
       \/ hub = NoValues /\ clubsSheet \in LegacySheets
    /\ req = NoRequest
    /\ pc = "idle"
    /\ reads = 0
    /\ resps = <<>>
    /\ sIn = <<>>
    /\ sOut = <<>>

Next ==
    \/ ClubsStart
    \/ ClubDataStart
    \/ ClubDataV2Start
    \/ ClubDataLegacyStart
    \/ ClubsResume
    \/ ClubDataResume
    \/ ClubDataV2Resume
    \/ ClubDataLegacyResume
    \/ SourceRejects
    \/ FetchFails
    \/ NextRequest

Spec == Init /\ [][Next]_vars

-----------------------------------------------------------------------------
(* The slug generator on its own: every string over SlugAlphabet up to     *)
(* MaxLen characters is normalised, and the result is normalised again     *)

SlugAlphabet == {"a", "Z", "5", "-", "!", " "}
SlugInputs == SeqsUpTo(SlugAlphabet, MaxLen)

InitSlug ==
    /\ hub = NoValues
    /\ clubsSheet = NoValues
    /\ req = NoRequest
    /\ pc = "idle"
    /\ reads = 0
    /\ resps = <<>>
    /\ sIn \in SlugInputs
    /\ sOut = <<>>

SlugApply ==
    /\ pc = "idle"
    /\ sOut' = urlIdentifier(sIn)
    /\ pc' = "done"
    /\ UNCHANGED <<hub, clubsSheet, req, reads, resps, sIn>>

SlugAgain ==
    /\ pc = "done"
    /\ sIn' = sOut
    /\ pc' = "idle"
    /\ UNCHANGED <<hub, clubsSheet, req, reads, resps, sOut>>

NextSlug == SlugApply \/ SlugAgain

SpecSlug == InitSlug /\ [][NextSlug]_vars

-----------------------------------------------------------------------------
(* The decoders applied to one row: parseClubData as the lookup calls it   *)
(* on the row it found, and the decode of clubs.js on an active row        *)

\* cells a row may carry beyond the last column the decoders read
ExtraCells == 2

\* a row with every cell filled in and every slot of every group complete
DenseCells == <<<<"d", "4">>, <<"D", "e", "n", "s", "e", " ", "C", "l", "u", "b">>, <<"y", "e", "s">>, <<"/", "d", "4">>, <<"/", "b", "o", "o", "k">>,
               <<"y", "o", "g", "a">>, <<"*">>, <<"L", "e", "e", "d", "s">>, <<"9", ".", "9", "9">>, <<"9", ".", "9", "9", " ", "p", "m">>, <<"*", "*", "*", "*">>,
               <<"4", ".", "2">>, <<"1", "0">>, <<"3", "1">>, <<"2">>, <<"T", "o", "p">>, <<"3">>, <<"1", "2">>, <<"+", "5", "%">>, <<"6", "p", "m">>,
               <<"M", "o", "n">>, <<"O", "p", "e", "n">>, <<"7", "p", "m">>, <<"T", "u", "e">>, <<"S", "p", "a", "r">>, <<"8", "p", "m">>, <<"W", "e", "d">>,
               <<"K", "i", "d", "s">>, <<"9", "p", "m">>, <<"T", "h", "u">>, <<"P", "r", "o">>, <<"A", "l">>, <<"5">>, <<"o", "k">>, <<"B", "o">>, <<"4">>,
               <<"g", "o", "o", "d">>, <<"C", "y">>, <<"3">>, <<"f", "i", "n", "e">>, <<"+">>, <<"F", "u", "n">>, <<"l", "o", "t", "s">>, <<"+">>, <<"F", "u", "n">>,
               <<"l", "o", "t", "s">>, <<"-">>, <<"F", "i", "t">>, <<"m", "o", "r", "e">>, <<"!">>, <<"P", "a", "l", "s">>, <<"m", "a", "n", "y">>, <<"#">>,
               <<"K", "i", "t">>, <<"f", "r", "e", "e">>, <<"~">>, <<"T", "e", "a">>, <<"h", "o", "t">>, <<"5">>, <<"2", ".", "5">>, <<"Q", "1">>, <<"A", "1">>,
               <<"Q", "2">>, <<"A", "2">>, <<"Q", "3">>, <<"A", "3">>, <<"Q", "4">>, <<"A", "4">>, <<"Q", "5">>, <<"A", "5">>, <<"b", "i", "o">>, <<"D", "e", "e">>,
               <<"H", "e", "a", "d">>, <<"d", ".", "p", "n", "g">>, <<"g", "y", "m", ",", " ", "p", "o", "o", "l">>,
               <<"B", "e", "g", "i", "n", "n", "e", "r", " ", "F", "r", "i", "e", "n", "d", "l", "y">>, <<"C", "h", "i", "l", "l">>,
               <<"W", "h", "e", "e", "l", "c", "h", "a", "i", "r", " ", "r", "a", "m", "p">>, <<"a", "@", "b">>, <<"1", "2", "3">>, <<"4", "5", "6">>, <<"@", "d">>,
               <<"1", " ", "R", "d">>, <<"r", "e", "d">>, <<"i", ".", "p", "n", "g">>>>
DenseRow == DenseCells \o [i \in 1..ExtraCells |-> <<"x">>]

\* cell contents: empty, the sentinel, text, numbers, lists, keywords in several casings
ProbeCells == {<<>>, <<"N", "/", "A">>, <<"a", "b", "c">>, <<"7", ".", "9">>, <<"-", "3">>, <<" ", "1", "2", "a", "b", "c">>, <<"a", ",", ",", "b">>,
               <<"a", ",", " ">>, <<" ", "x", " ">>, <<"B", "E", "G", "I", "N", "N", "E", "R", " ", "F", "R", "I", "E", "N", "D", "L", "Y">>,
               <<"b", "E", "G", "I", "N", "N", "E", "R", " ", "f", "R", "I", "E", "N", "D", "L", "Y">>, <<"A", "l", "l", " ", "A", "g", "e", "s">>,
               <<"A", "L", "L", " ", "A", "G", "E", "S">>, <<"A", "c", "c", "e", "s", "s", "i", "b", "l", "e">>, <<"W", "H", "E", "E", "L", "C", "H", "A", "I", "R">>,
               <<"F", "e", "a", "t", "u", "r", "e", "d">>, <<"Y", "e", "s">>}

BaseRows == {DenseRow, RowFull}

\* each base row, each of its prefixes, and each base row with one cell replaced
DecodeRows ==
    UNION {{SubSeq(base, 1, n) : n \in 0..Len(base)} : base \in BaseRows}
        \cup UNION {{[base EXCEPT ![i] = v] : i \in 1..Len(base), v \in ProbeCells} : base \in BaseRows}

InitDecode ==
    /\ hub = NoValues
    /\ clubsSheet = NoValues
    /\ req = NoRequest
    /\ pc = "row"
    /\ reads = 0
    /\ resps = <<>>
    /\ sIn \in DecodeRows
    /\ sOut = <<>>

\* some requested code makes clubRows.find of the lookup return this row
isFindable(row) ==
    /\ Truthy(urlIdentifier(Or(Cell(row, 0), Cell(row, 1))))
    /\ findCallback(row, 1, urlIdentifier(Or(Cell(row, 0), Cell(row, 1))))

Decoded(label, guard, club) ==
    /\ pc = "row"
    /\ guard
    /\ sOut' = club
    /\ pc' = label
    /\ UNCHANGED <<hub, clubsSheet, req, reads, resps, sIn>>

\* const clubData = parseClubData(clubRow) of the current club-data.js
DecodeClub == Decoded("club", isFindable(sIn), parseClubData(sIn))

\* the same call in the previous revision
DecodeClubV2 == Decoded("clubV2", isFindable(sIn), parseClubDataV2(sIn))

\* the body of the row loop of clubs.js, past the isActive test
DecodeListed == Decoded("listed", isActive(sIn), clubsDecode(sIn))

\* the computed and legacy assignments of parseClubData made once more on its result
Rederive ==
    /\ pc = "club"
    /\ sOut' = parseClubDerive(sOut)
    /\ pc' = "rederived"
    /\ UNCHANGED <<hub, clubsSheet, req, reads, resps, sIn>>

\* the computed assignments of the previous parseClubData made once more on its result
RederiveV2 ==
    /\ pc = "clubV2"
    /\ sOut' = parseClubDataV2Computed(sOut) @@ sOut
    /\ pc' = "rederivedV2"
    /\ UNCHANGED <<hub, clubsSheet, req, reads, resps, sIn>>

NextDecode == DecodeClub \/ DecodeClubV2 \/ DecodeListed \/ Rederive \/ RederiveV2

SpecDecode == InitDecode /\ [][NextDecode]_vars

-----------------------------------------------------------------------------
(* Several requests in flight at once.  Each invocation of a handler has   *)
(* its own req, res and local variables; the handlers declare nothing at   *)
(* module level.  In this specification req, pc, reads, resps and sIn are  *)
(* functions of the request; sIn[r] holds the rows the await of request r  *)
(* resolved to.  The sheet may be edited between two reads.                *)

MaxRequests == 2
Requests == 1..MaxRequests

ConcSheets == {Sheet(<<HeaderLabels, RowLowerId>>),
               Sheet(<<HeaderLabels, RowUpperId, RowLowerId>>),
               Sheet(<<HeaderLabels>>)}
ConcCodes == {<<"a", "1">>, <<"z", "z">>}

InitConc ==
    /\ hub \in ConcSheets
    /\ clubsSheet = NoValues
    /\ req = [r \in Requests |-> NoRequest]
    /\ pc = [r \in Requests |-> "idle"]
    /\ reads = [r \in Requests |-> 0]
    /\ resps = [r \in Requests |-> <<>>]
    /\ sIn = [r \in Requests |-> NoValues]
    /\ sOut = <<>>

\* a GET reaches its await: sheets.spreadsheets.values.get is called
ConcStart(r) ==
    /\ pc[r] = "idle"
    /\ \E endpoint \in {"clubs", "clubData"}, code \in ConcCodes :
           /\ endpoint = "clubs" => code = <<"z", "z">>
           /\ req' = [req EXCEPT ![r] = [endpoint |-> endpoint, method |-> "GET",
                                         code |-> IF endpoint = "clubs" THEN Undef ELSE code]]
    /\ reads' = [reads EXCEPT ![r] = 1]
    /\ pc' = [pc EXCEPT ![r] = "fetching"]
    /\ UNCHANGED <<hub, clubsSheet, resps, sIn, sOut>>

\* the data source serves the read: the promise resolves to the rows of that moment
ConcFetched(r) ==
    /\ pc[r] = "fetching"
    /\ sIn' = [sIn EXCEPT ![r] = hub]
    /\ pc' = [pc EXCEPT ![r] = "fetched"]
    /\ UNCHANGED <<hub, clubsSheet, req, reads, resps, sOut>>

\* faulty variant: the rows kept in one place for all requests, read when answering
clubRowsShared(r) == hub

\* const clubRows = clubResponse.data.values: the rows held by the invocation
clubRowsOf(r) == sIn[r]

\* the handler of request r runs from its await to its response
ConcResume(r) ==
    /\ pc[r] = "fetched"
    /\ resps' = [resps EXCEPT ![r] =
                    <<IF req[r].endpoint = "clubs"
                      THEN clubsResponse(fetchRange(clubRowsOf(r), ClubsRangeWidth))
                      ELSE clubDataResponse(fetchRange(clubRowsOf(r), ClubDataRangeWidth),
                                            req[r].code)>>]
    /\ pc' = [pc EXCEPT ![r] = "done"]
    /\ UNCHANGED <<hub, clubsSheet, req, reads, sIn, sOut>>

\* the invocation is over; the next one in its place starts afresh
ConcAgain(r) ==
    /\ pc[r] = "done"
    /\ pc' = [pc EXCEPT ![r] = "idle"]
    /\ req' = [req EXCEPT ![r] = NoRequest]
    /\ reads' = [reads EXCEPT ![r] = 0]
    /\ resps' = [resps EXCEPT ![r] = <<>>]
    /\ sIn' = [sIn EXCEPT ![r] = NoValues]
    /\ UNCHANGED <<hub, clubsSheet, sOut>>

\* the sheet is edited by its owner
SheetEdited ==
    /\ hub' \in ConcSheets \ {hub}
    /\ UNCHANGED <<clubsSheet, req, pc, reads, resps, sIn, sOut>>

NextConc ==
    \/ \E r \in Requests : ConcStart(r)
    \/ \E r \in Requests : ConcFetched(r)
    \/ \E r \in Requests : ConcResume(r)
    \/ \E r \in Requests : ConcAgain(r)
    \/ SheetEdited

SpecConc == InitConc /\ [][NextConc]_vars

-----------------------------------------------------------------------------
(* getColumnLetter of debug-headers.js on its own: the name of every column *)
(* index up to MaxColumn                                                   *)

MaxColumn == 730

\* faulty variant: plain base 26, the quotient carried without the - 1
RECURSIVE getColumnLetterPlainLoop(_, _)
getColumnLetterPlainLoop(index, letter) ==
    LET next == <<UpperChars[(index % 26) + 1]>> \o letter
    IN  IF index \div 26 > 0 THEN getColumnLetterPlainLoop(index \div 26, next) ELSE next

getColumnLetterPlain(index) == getColumnLetterPlainLoop(index, <<>>)

\* while (index >= 0) { letter = String.fromCharCode(65 + (index % 26)) + letter;
\*                      index = Math.floor(index / 26) - 1; }
RECURSIVE getColumnLetterLoop(_, _)
getColumnLetterLoop(index, letter) ==
    IF index >= 0
    THEN getColumnLetterLoop((index \div 26) - 1, <<UpperChars[(index % 26) + 1]>> \o letter)
    ELSE letter

\* getColumnLetter(index): let letter = ''; the loop; return letter
getColumnLetter(index) == getColumnLetterLoop(index, <<>>)

InitColumn ==
    /\ hub = NoValues
    /\ clubsSheet = NoValues
    /\ req = NoRequest
    /\ pc = "idle"
    /\ reads = 0
    /\ resps = <<>>
    /\ sIn \in 0..MaxColumn
    /\ sOut = <<>>

\* letter: getColumnLetter(index) inside headers.forEach
ColumnApply ==
    /\ pc = "idle"
    /\ sOut' = getColumnLetter(sIn)
    /\ pc' = "done"
    /\ UNCHANGED <<hub, clubsSheet, req, reads, resps, sIn>>

NextColumn == ColumnApply

SpecColumn == InitColumn /\ [][NextColumn]_vars

-----------------------------------------------------------------------------
(* Properties *)

Resp == resps[1]
\* the request to endpoint is over and the data source did not reject its read
Done(endpoint) ==
    pc = "done" /\ req.endpoint = endpoint /\ Len(resps) = 1 /\ Resp # InternalError

\* the data rows of the hub sheet as the lookup sees them
RowsAfterHeader(values) == IF values = <<>> THEN <<>> ELSE Tail(values)
DataRows == RowsAfterHeader(fetchRange(hub, ClubDataRangeWidth).values)
\* the data rows of the hub sheet as the list sees them
ListRows == RowsAfterHeader(fetchRange(hub, ClubsRangeWidth).values)

\* the active-column cell lower-cased is 'yes'
SaysYes(row) == Len(row) >= 3 /\ toLowerCase(row[3]) = Yes

\* the raw identifying cell of a row: the id cell if non-empty, else the name cell
RawIdent(row) ==
    IF Len(row) >= 1 /\ row[1] # <<>> THEN row[1]
    ELSE IF Len(row) >= 2 THEN row[2] ELSE Undef

FootballSlug == <<"5", "-", "a", "-", "s", "i", "d", "e", "-", "f", "o", "o", "t", "b", "a", "l", "l">>

\* C1: whenever the lookup returns a record, the record's club_code equals the
\* lower-cased requested code, whatever the id and name cells hold.
C1_FoundSlugEqualsCode ==
    (Done("clubData") /\ Resp.kind = "club")
        => Resp.body.club_code = toLowerCase(req.code)

\* C2 as stated: a lookup of the slug k of an active data row's raw identifying
\* cell returns a record, for every k.
C2_ActiveSlugIsFound ==
    (/\ Done("clubData") /\ req.method = "GET"
     /\ hub.hasValues
     /\ \E i \in 1..Len(DataRows) :
            /\ SaysYes(DataRows[i])
            /\ req.code # Undef
            /\ urlIdentifier(RawIdent(DataRows[i])) = req.code)
        => Resp.kind = "club"

\* C2 amended: the same for every non-empty slug k; and the active club named
\* "5-a-Side Football!" with an empty id is found by "5-a-side-football" with that slug.
C2_ActiveNonEmptySlugIsFound ==
    (/\ Done("clubData") /\ req.method = "GET"
     /\ hub.hasValues
     /\ \E i \in 1..Len(DataRows) :
            /\ SaysYes(DataRows[i])
            /\ req.code # Undef /\ req.code # <<>>
            /\ urlIdentifier(RawIdent(DataRows[i])) = req.code)
        => /\ Resp.kind = "club"
           /\ req.code = FootballSlug => Resp.body.club_code = FootballSlug

C2_Witness ==
    /\ Done("clubData")
    /\ req.code = FootballSlug
    /\ \E i \in 1..Len(DataRows) : DataRows[i] = RowFootball
    /\ Resp.kind = "club"
    /\ Resp.body.club_code = FootballSlug

\* C3: the slug function is idempotent, slug(slug(s)) = slug(s), and maps the
\* empty string to the empty string.
C3_SlugIdempotent ==
    pc = "done" => /\ urlIdentifier(sOut) = sOut
                   /\ sIn = <<>> => sOut = <<>>

C3_Witness ==
    /\ pc = "done"
    /\ sIn = <<"!", "Z", "!">>
    /\ sOut = <<"z">>

\* what a lookup of code answers on the current hub sheet
LookupOutcome(code) ==
    IF ~Truthy(code) THEN CodeRequired
    ELSE clubDataResponse(fetchRange(hub, ClubDataRangeWidth), code)

\* C4: every record of the list is found by a lookup of its own club_code, and the
\* record found carries the same club_code.
C4_ListedSlugFindsRecord ==
    (Done("clubs") /\ Resp.kind = "clubs")
        => \A k \in 1..Len(Resp.body) :
               /\ LookupOutcome(Resp.body[k].club_code).kind = "club"
               /\ LookupOutcome(Resp.body[k].club_code).body.club_code
                      = Resp.body[k].club_code

\* the positions (in the data rows) of the rows whose active cell says yes
YesPositions(rows) == {i \in 1..Len(rows) : SaysYes(rows[i])}

\* C5: the list holds exactly one record per data row whose active cell is "yes" in
\* any letter case, and none for any other row.
C5_OneRecordPerActiveRow ==
    (Done("clubs") /\ Resp.kind = "clubs")
        => Len(Resp.body) = Cardinality(YesPositions(ListRows))

C5_Witness ==
    /\ Done("clubs") /\ Resp.kind = "clubs"
    /\ Len(ListRows) = 3
    /\ Cardinality(YesPositions(ListRows)) = 1
    /\ \E i \in 1..3 : ListRows[i][3] # Yes /\ SaysYes(ListRows[i])
    /\ Len(Resp.body) = 1

\* the active cell lower-cased is one of yes, true, 1
SaysYesTrueOrOne(row) ==
    Len(row) >= 3 /\ toLowerCase(row[3]) \in {Yes, <<"t", "r", "u", "e">>, <<"1">>}

\* C6 as stated: a row is active exactly when its active cell, lower-cased, is one of
\* yes, true, 1: the list holds one record per such row.
C6_ActiveIsYesTrueOrOne ==
    (Done("clubs") /\ Resp.kind = "clubs")
        => Len(Resp.body) = Cardinality({i \in 1..Len(ListRows) : SaysYesTrueOrOne(ListRows[i])})

LegacyRowsFetched == RowsAfterHeader(fetchRange(clubsSheet, LegacyRangeWidth).values)

\* C6 amended: a row is active exactly when its active cell lower-cased is "yes"; the
\* list, the lookup and the diagnostic listing all use that test, and the legacy
\* lookup asks for the cell to be exactly "yes".
C6_ActiveIsYes ==
    /\ (pc = "done" /\ hub.hasValues)
        => \A i \in 1..Len(DataRows) :
               /\ isActive(DataRows[i]) <=> SaysYes(DataRows[i])
               /\ lookupIsActive(DataRows[i]) <=> SaysYes(DataRows[i])
               /\ diagIsActive(DataRows[i]) <=> SaysYes(DataRows[i])
    /\ (pc = "done" /\ clubsSheet.hasValues)
        => \A i \in 1..Len(LegacyRowsFetched) :
               legacyIsActive(LegacyRowsFetched[i])
                   <=> (Len(LegacyRowsFetched[i]) >= 24 /\ LegacyRowsFetched[i][24] = Yes)

C6_Witness ==
    /\ Done("clubs") /\ Resp.kind = "clubs"
    /\ Len(ListRows) = 2
    /\ ListRows[1] = RowTrue
    /\ ListRows[2] = RowSentinelId
    /\ Len(Resp.body) = 1

\* the slugs of the active data rows, in row order
RECURSIVE ActiveSlugs(_)
ActiveSlugs(rows) ==
    IF rows = <<>> THEN <<>>
    ELSE (IF SaysYes(rows[1]) THEN <<urlIdentifier(RawIdent(rows[1]))>> ELSE <<>>)
             \o ActiveSlugs(Tail(rows))

\* C7: a lookup that matches no active row answers not-found with the requested key,
\* one listed slug per active data row and a total equal to their number.
C7_NotFoundListsEveryActiveRow ==
    (Done("clubData") /\ Resp.kind = "notFound")
        => /\ Resp.body.debug_info.searched_code = req.code
           /\ Resp.body.debug_info.available_codes = ActiveSlugs(DataRows)
           /\ Resp.body.debug_info.total_active_clubs = Cardinality(YesPositions(DataRows))

\* row i of the data rows is active and normalises to the requested code
Matches(rows, i, code) ==
    SaysYes(rows[i]) /\ urlIdentifier(RawIdent(rows[i])) = toLowerCase(code)

\* C8: when several active rows normalise to the requested slug, the lookup returns
\* the record decoded from the first of them in row order.
C8_FirstDuplicateWins ==
    (Done("clubData") /\ Resp.kind = "club")
        => \E i \in 1..Len(DataRows) :
               /\ Matches(DataRows, i, req.code)
               /\ \A j \in 1..(i - 1) : ~Matches(DataRows, j, req.code)
               /\ Resp.body = parseClubData(DataRows[i])

C8_Witness ==
    /\ Done("clubData") /\ Resp.kind = "club"
    /\ Len(DataRows) = 3
    /\ ~Matches(DataRows, 1, req.code)
    /\ Matches(DataRows, 2, req.code)
    /\ Matches(DataRows, 3, req.code)
    /\ parseClubData(DataRows[2]) # parseClubData(DataRows[3])
    /\ Resp.body = parseClubData(DataRows[2])

\* the position of the k-th active data row
KthYes(rows, k) ==
    CHOOSE i \in YesPositions(rows) :
        Cardinality({j \in YesPositions(rows) : j < i}) = k - 1

\* C9: the list is in source row order: its k-th record is the record of the k-th
\* active data row, so nothing is reordered or duplicated.
C9_ListInRowOrder ==
    (Done("clubs") /\ Resp.kind = "clubs")
        => /\ Len(Resp.body) = Cardinality(YesPositions(ListRows))
           /\ \A k \in 1..Len(Resp.body) :
                  Resp.body[k] = clubsDecode(ListRows[KthYes(ListRows, k)])

C9_Witness ==
    /\ Done("clubs") /\ Resp.kind = "clubs"
    /\ Len(ListRows) = 3
    /\ YesPositions(ListRows) = {1, 3}
    /\ clubsDecode(ListRows[1]) # clubsDecode(ListRows[3])
    /\ Resp.body = <<clubsDecode(ListRows[1]), clubsDecode(ListRows[3])>>

HasRequestedSlug(club) == club.club_code = toLowerCase(req.code)

\* the records the list operation returns on the current hub sheet
Listed == clubsLoop(fetchRange(hub, ClubsRangeWidth).values, 1, <<>>)

\* C10: the record a lookup returns is, field for field, the first record of the
\* list whose club_code is the requested slug.
C10_LookupEqualsListed ==
    (Done("clubData") /\ Resp.kind = "club")
        => /\ SelectSeq(Listed, HasRequestedSlug) # <<>>
           /\ Resp.body = SelectSeq(Listed, HasRequestedSlug)[1]

-----------------------------------------------------------------------------
(* Properties of the decoders *)

\* the cell as the schema's string coercion reads it: absent and "N/A" are empty
Coerced(row, col) ==
    LET c == Cell(row, col) IN IF c = Undef \/ c = Sentinel THEN <<>> ELSE c

\* the elements of a set of numbers in ascending order
RECURSIVE Ascending(_)
Ascending(S) ==
    IF S = {} THEN <<>>
    ELSE LET least == CHOOSE x \in S : \A y \in S : x <= y
         IN  <<least>> \o Ascending(S \ {least})

\* the slots of a group whose two required cells are both non-empty after coercion,
\* each as the pair of its required values, in slot order
CompleteSlots(row, base, stride, count, first, second) ==
    LET complete == {i \in 0..(count - 1) :
                        /\ Coerced(row, base + (i * stride) + first) # <<>>
                        /\ Coerced(row, base + (i * stride) + second) # <<>>}
        order == Ascending(complete)
    IN  [k \in 1..Len(order) |->
            <<Coerced(row, base + (order[k] * stride) + first),
              Coerced(row, base + (order[k] * stride) + second)>>]

SessionKeys(club) == [k \in 1..Len(club.sessions) |-> <<club.sessions[k].time, club.sessions[k].date>>]
AuthorKeys(club) == [k \in 1..Len(club.testimonials) |-> <<club.testimonials[k].author, club.testimonials[k].text>>]
NameKeys(club) == [k \in 1..Len(club.testimonials) |-> <<club.testimonials[k].name, club.testimonials[k].text>>]
BenefitKeys(club) == [k \in 1..Len(club.benefits) |-> <<club.benefits[k].title, club.benefits[k].description>>]
FaqKeys(club) == [k \in 1..Len(club.faqs) |-> <<club.faqs[k].question, club.faqs[k].answer>>]

\* the groups of the record of the lookup hold exactly the complete slots of the row
ClubGroupsComplete ==
    /\ SessionKeys(sOut) = CompleteSlots(sIn, 19, 3, 4, 0, 1)
    /\ AuthorKeys(sOut) = CompleteSlots(sIn, 31, 3, 3, 0, 2)
    /\ BenefitKeys(sOut) = CompleteSlots(sIn, 40, 3, 6, 1, 2)
    /\ FaqKeys(sOut) = CompleteSlots(sIn, 60, 2, 5, 0, 1)

\* the groups of a record of the list hold exactly the complete slots of the row
ListedGroupsComplete ==
    /\ NameKeys(sOut) = CompleteSlots(sIn, 31, 3, 3, 0, 2)
    /\ BenefitKeys(sOut) = CompleteSlots(sIn, 40, 3, 6, 1, 2)
    /\ FaqKeys(sOut) = CompleteSlots(sIn, 60, 2, 5, 0, 1)

\* C11: a slot of a repeating group (session, testimonial, benefit, FAQ) is in the
\* decoded sequence if and only if each of its required fields is non-empty after
\* coercion, "N/A" counting as empty; a partly filled slot is dropped. Stated for
\* the record of the lookup and for the records of the list.
C11_SlotIffComplete ==
    /\ pc = "club" => ClubGroupsComplete
    /\ pc = "listed" => ListedGroupsComplete

\* the same for the record of the lookup alone
C11_ClubSlotIffComplete == pc = "club" => ClubGroupsComplete

\* the cell holds no number: absent, or without a digit after blanks and a sign
NoNumber(c) ==
    \/ c = Undef
    \/ LET u == Unsigned(skipWhiteSpace(c))
       IN  u = <<>> \/ (~IsDigit(u[1]) /\ u[1] # ".")

\* the cell is a decimal numeral: digits, or digits "." digits
PlainNumeral(c) ==
    /\ c # Undef
    /\ digitCount(c) >= 1
    /\ LET rest == SubSeq(c, digitCount(c) + 1, Len(c))
       IN  rest = <<>> \/ (rest[1] = "." /\ digitCount(Tail(rest)) = Len(rest) - 1)

\* the digits before the point, as a number
WholePart(c) == Num(digitsValue(SubSeq(c, 1, digitCount(c)), 0))

FloatFields == {<<"monthly_fee_amount", 8>>, <<"numeric_rating", 11>>, <<"rating_out_of", 12>>,
                <<"pay_per_session_price", 58>>, <<"savings_amount", 59>>}
IntFields == {<<"member_count", 13>>, <<"ranking_position", 14>>,
              <<"sessions_per_week", 16>>, <<"average_attendance", 17>>}

\* the numeric fields in F are 0 where the cell holds no number
ZeroWithoutNumber(F) == \A f \in F : NoNumber(Cell(sIn, f[2])) => sOut[f[1]] = Num(0)

\* the integer fields hold the whole part of a decimal numeral
IntegersTruncate == \A f \in IntFields : PlainNumeral(Cell(sIn, f[2])) => sOut[f[1]] = WholePart(Cell(sIn, f[2]))

StringFields == {<<"club_id", 0>>, <<"club_name", 1>>, <<"active", 2>>, <<"page_url", 3>>,
                 <<"booking_url", 4>>, <<"activity_type", 5>>, <<"club_logo_emoji", 6>>,
                 <<"location", 7>>, <<"monthly_fee_text", 9>>, <<"star_rating", 10>>,
                 <<"ranking_category", 15>>, <<"member_growth", 18>>, <<"club_bio", 70>>,
                 <<"coach_name", 71>>, <<"coach_role", 72>>, <<"coach_avatar", 73>>,
                 <<"facilities_list", 74>>, <<"tags_who", 75>>, <<"tags_vibe", 76>>,
                 <<"tags_accessibility", 77>>, <<"email", 78>>, <<"phone", 79>>,
                 <<"whatsapp", 80>>, <<"instagram", 81>>, <<"address", 82>>,
                 <<"hero_background_gradient", 83>>}

\* the other string fields of an output record
OtherStringFields == {"image_url", "description", "age_groups", "skill_levels", "tags",
                      "facilities", "instructor_name", "instructor_bio", "website", "club_code"}

\* the string fields of the slots of the groups of a record
SlotStrings(club) ==
    {club.benefits[k][f] : k \in 1..Len(club.benefits), f \in {"icon", "title", "description"}}
        \cup {club.faqs[k][f] : k \in 1..Len(club.faqs), f \in {"question", "answer"}}
        \cup {club.testimonials[k].text : k \in 1..Len(club.testimonials)}
        \cup (IF pc = "listed"
              THEN {club.testimonials[k].name : k \in 1..Len(club.testimonials)}
                       \cup {club[f] : f \in {"session_1_time", "session_1_date", "session_1_type",
                                              "session_2_time", "session_2_date", "session_2_type",
                                              "session_3_time", "session_3_date", "session_3_type",
                                              "session_4_time", "session_4_date", "session_4_type"}}
              ELSE {club.testimonials[k].author : k \in 1..Len(club.testimonials)}
                       \cup {club.sessions[k][f] : k \in 1..Len(club.sessions), f \in {"time", "date", "type"}})

\* every string of the record, scalar or in a slot
RecordStrings(club) ==
    {club[f[1]] : f \in StringFields} \cup {club[f] : f \in OtherStringFields} \cup SlotStrings(club)

\* C13: no string field of an output record, from the list or from the lookup,
\* holds "N/A": the string coercion gives the cell, '' for an absent cell and ''
\* for the sentinel.
C13_NoSentinelInStrings ==
    pc \in {"club", "listed"} => Sentinel \notin RecordStrings(sOut)

\* the same for the record of the lookup alone
C13_ClubNoSentinelInStrings == pc = "club" => Sentinel \notin RecordStrings(sOut)

\* the row with empty cells appended up to the length of the longest row
Padded(row) == row \o [i \in 1..(Len(DenseRow) - Len(row)) |-> <<>>]

\* C14: decoding is total over row shapes: a row of any length, shorter than the
\* schema or longer, decodes to exactly the record of the same row padded with
\* empty trailing cells.
C14_ShortRowAsPadded ==
    /\ pc = "club" => sOut = parseClubData(Padded(sIn))
    /\ pc = "listed" => sOut = clubsDecode(Padded(sIn))

C14_Witness ==
    /\ pc = "club"
    /\ Len(sIn) = 3
    /\ Len(Padded(sIn)) > 85
    /\ sOut.page_url = <<>> /\ sOut.member_count = Num(0) /\ sOut.faqs = <<>>

\* the cell is missing or holds the sentinel
MissingOrSentinel(c) == c = Undef \/ c = <<>> \/ c = Sentinel

\* C15: every scalar field of a decoded record is present, and where its cell is
\* missing, invalid or the sentinel the field holds the typed default: '' for a
\* string field, 0 for an integer or float field.
C15_TypedDefaults ==
    pc \in {"club", "listed"} =>
        /\ \A f \in StringFields \cup FloatFields \cup IntFields : f[1] \in DOMAIN sOut
        /\ \A f \in StringFields : MissingOrSentinel(Cell(sIn, f[2])) => sOut[f[1]] = <<>>
        /\ ZeroWithoutNumber(FloatFields \cup IntFields)

\* the fields whose default is not the typed one
OwnDefault == [club_name |-> UnknownClub, active |-> DefaultActive, club_logo_emoji |-> DefaultLogo]

\* the same for the record of the lookup alone, with the defaults the decoder
\* gives to club_name, active, club_logo_emoji and rating_out_of
C15_ClubDefaults ==
    pc = "club" =>
        /\ \A f \in StringFields \cup FloatFields \cup IntFields : f[1] \in DOMAIN sOut
        /\ \A f \in StringFields : MissingOrSentinel(Cell(sIn, f[2])) =>
               sOut[f[1]] = (IF f[1] \in DOMAIN OwnDefault THEN OwnDefault[f[1]] ELSE <<>>)
        /\ ZeroWithoutNumber((FloatFields \cup IntFields) \ {<<"rating_out_of", 12>>})
        /\ NoNumber(Cell(sIn, 12)) => sOut.rating_out_of = Num(5)

\* C16: in every output record, of the list and of the lookup, review_count is
\* the length of the record's testimonials.
C16_ReviewCountIsTestimonials ==
    pc \in {"club", "listed"} => sOut.review_count = Num(Len(sOut.testimonials))

\* the same for the record of the lookup alone
C16_ClubReviewCount == pc = "club" => sOut.review_count = Num(Len(sOut.testimonials))

\* no element of the array is empty or begins or ends with white space
CleanParts(arr) ==
    \A k \in 1..Len(arr) :
        /\ arr[k] # <<>>
        /\ arr[k][1] \notin WhiteSpace
        /\ arr[k][Len(arr[k])] \notin WhiteSpace

\* C17: tags_array and facilities_array come from splitting the text on ',',
\* trimming each part and dropping the empty parts: no element is empty or has
\* surrounding white space, for "a,,b" and "a, " as for every text.
C17_ArraysHaveCleanParts ==
    pc \in {"club", "clubV2"} => CleanParts(sOut.tags_array) /\ CleanParts(sOut.facilities_array)

\* the text of a cell, '' when the cell is absent
CellText(row, col) == IF Cell(row, col) = Undef THEN <<>> ELSE Cell(row, col)

\* s contains the lower-case keyword kw, letter case of s aside
ContainsFolded(s, kw) ==
    \E i \in 1..(Len(s) - Len(kw) + 1) : \A j \in 1..Len(kw) : LowerChar(s[i + j - 1]) = kw[j]

\* C18 as stated: tags_who containing "Beginner Friendly" in any letter case gives
\* is_beginner_friendly, is_all_ages is true exactly when tags_who contains
\* "all ages", and is_wheelchair_accessible exactly when tags_accessibility
\* contains "wheelchair" or "accessible", letter case aside.
C18_FlagsWithAccessible ==
    pc \in {"club", "listed"} =>
        /\ ContainsFolded(CellText(sIn, 75), <<"b", "e", "g", "i", "n", "n", "e", "r", " ", "f", "r", "i", "e", "n", "d", "l", "y">>) => sOut.is_beginner_friendly
        /\ sOut.is_all_ages <=> ContainsFolded(CellText(sIn, 75), <<"a", "l", "l", " ", "a", "g", "e", "s">>)
        /\ sOut.is_wheelchair_accessible <=>
               (ContainsFolded(CellText(sIn, 77), <<"w", "h", "e", "e", "l", "c", "h", "a", "i", "r">>) \/ ContainsFolded(CellText(sIn, 77), <<"a", "c", "c", "e", "s", "s", "i", "b", "l", "e">>))

\* C18: is_beginner_friendly is true exactly when tags_who contains "beginner",
\* is_all_ages exactly when tags_who contains "all ages", and
\* is_wheelchair_accessible exactly when tags_accessibility contains "wheelchair",
\* letter case aside; "accessible" alone does not set the flag.
C18_FlagsAreKeywordTests ==
    pc \in {"club", "listed"} =>
        /\ sOut.is_beginner_friendly <=> ContainsFolded(CellText(sIn, 75), <<"b", "e", "g", "i", "n", "n", "e", "r">>)
        /\ sOut.is_all_ages <=> ContainsFolded(CellText(sIn, 75), <<"a", "l", "l", " ", "a", "g", "e", "s">>)
        /\ sOut.is_wheelchair_accessible <=> ContainsFolded(CellText(sIn, 77), <<"w", "h", "e", "e", "l", "c", "h", "a", "i", "r">>)

C18_Witness ==
    /\ pc = "club"
    /\ Cell(sIn, 75) = <<"b", "E", "G", "I", "N", "N", "E", "R", " ", "f", "R", "I", "E", "N", "D", "L", "Y">>
    /\ sOut.is_beginner_friendly /\ ~sOut.is_all_ages /\ sOut.is_wheelchair_accessible

\* C19: each legacy alias of an output record equals the canonical field it
\* copies, in the record of the lookup (both revisions) and in those of the list.
C19_AliasesEqualCanonical ==
    pc \in {"club", "clubV2", "listed"} =>
        /\ sOut.monthly_fee = sOut.monthly_fee_amount
        /\ sOut.description = sOut.club_bio
        /\ sOut.rating = sOut.numeric_rating
        /\ sOut.user_rating = sOut.numeric_rating
        /\ sOut.total_members = sOut.member_count
        /\ sOut.age_groups = sOut.tags_who
        /\ sOut.facilities = sOut.facilities_list
        /\ sOut.instructor_name = sOut.coach_name
        /\ sOut.instructor_bio = sOut.coach_role

C19_Witness ==
    /\ pc = "club"
    /\ sOut.instructor_bio = <<"H", "e", "a", "d">> /\ sOut.instructor_name = <<"D", "e", "e">>
    /\ sOut.monthly_fee = [m |-> 999, e |-> 2]
    /\ sOut.total_members = Num(31)
    /\ sOut.age_groups = <<"b", "E", "G", "I", "N", "N", "E", "R", " ", "f", "R", "I", "E", "N", "D", "L", "Y">>

\* C20: running the derivation again on a record that is already derived gives
\* the same record: the computed and legacy fields are read from the canonical
\* fields alone, in both revisions of parseClubData.
C20_RederiveIsIdentity ==
    /\ pc = "rederived" => sOut = parseClubData(sIn)
    /\ pc = "rederivedV2" => sOut = parseClubDataV2(sIn)

C20_Witness ==
    /\ pc = "rederived"
    /\ Len(sOut.tags_array) = 3 /\ Len(sOut.facilities_array) = 2
    /\ sOut.review_count = Num(3)
    /\ sOut.tags # <<>>

-----------------------------------------------------------------------------
(* Properties of the handlers: failures, validation and the shape of the   *)
(* row set                                                                 *)

\* C21: when the data source rejects the read, nothing has been sent for the
\* request, and the only step the handler takes is to send one response of status
\* 500 that ends the request: no club record, no list and no success response.
C21_RejectedReadGivesOne500 ==
    [][pc = "rejected" =>
          /\ resps = <<>>
          /\ pc' = "done"
          /\ Len(resps') = 1
          /\ resps'[1].status = 500 /\ resps'[1].kind = "error"]_vars

C21_Witness ==
    /\ pc = "done"
    /\ req.endpoint = "clubs" /\ reads = 1
    /\ hub # NoValues /\ Len(hub.values) > 1
    /\ Len(resps) = 1 /\ Resp.status = 500

\* what a lookup gave: its status, its kind and, when a club was found, the record
Outcome(response) ==
    <<response.status, response.kind,
      IF response.kind = "club" THEN response.body ELSE NoBody>>

\* C22: the requested code is compared in lower case: a lookup of t and a lookup
\* of lower-cased t over the same rows give the same outcome, the same record or
\* not-found in both cases, in the current lookup and in the legacy one.
C22_LowerCasedCodeSameOutcome ==
    /\ (Done("clubData") /\ Truthy(req.code)) =>
           Outcome(Resp) = Outcome(clubDataResponse(fetchRange(hub, ClubDataRangeWidth),
                                                    toLowerCase(req.code)))
    /\ (Done("clubDataLegacy") /\ Truthy(req.code)) =>
           Outcome(Resp) = Outcome(clubDataLegacyResponse(fetchRange(clubsSheet, LegacyRangeWidth),
                                                          toLowerCase(req.code)))

C22_Witness ==
    /\ Done("clubData")
    /\ req.code = <<"A", "1">>
    /\ Resp.kind = "club" /\ Resp.body.club_code = <<"a", "1">>

\* lower case letters, digits and single '-' between them, none at either end
WellFormedSlug(s) ==
    /\ \A i \in 1..Len(s) : s[i] = "-" \/ IsSlugChar(s[i])
    /\ \A i \in 1..(Len(s) - 1) : ~(s[i] = "-" /\ s[i + 1] = "-")
    /\ s # <<>> => (s[1] # "-" /\ s[Len(s)] # "-")

\* the record's club_code is the slug of its id, or of its name when the id is empty
CarriesOwnSlug(club) ==
    /\ club.club_code = urlIdentifier(IF club.club_id # <<>> THEN club.club_id ELSE club.club_name)
    /\ WellFormedSlug(club.club_code)

\* C23: every record of the list and every record of the lookup carries a
\* club_code equal to slug(x), x being its id if non-empty and its name otherwise:
\* lower case, only [a-z0-9-], no two adjacent '-', no leading or trailing '-'.
C23_RecordCarriesOwnSlug ==
    /\ (Done("clubs") /\ Resp.kind = "clubs") =>
           \A k \in 1..Len(Resp.body) : CarriesOwnSlug(Resp.body[k])
    /\ (Done("clubData") /\ Resp.kind = "club") => CarriesOwnSlug(Resp.body)

\* the same for the record of the lookup alone
C23_LookupCarriesOwnSlug ==
    (Done("clubData") /\ Resp.kind = "club") => CarriesOwnSlug(Resp.body)

-----------------------------------------------------------------------------
(* Properties of the groups and of the columns                             *)

\* the slots of a group that are complete as Read gives their two required cells,
\* each as the pair of those cells, in increasing slot order and with repetitions
SlotsInOrder(Read(_, _), row, base, stride, count, first, second) ==
    LET pair(i) == <<Read(row, base + (i * stride) + first), Read(row, base + (i * stride) + second)>>
        complete(p) == p[1] # <<>> /\ p[2] # <<>>
    IN  SelectSeq([k \in 1..count |-> pair(k - 1)], complete)

\* C24: each group of a decoded record is a sequence of at most as many elements
\* as the group has slots (sessions 4, testimonials 3, benefits 6, FAQs 5), and its
\* elements are the complete slots in increasing slot order, two complete slots
\* with the same content both present; in both revisions of parseClubData.
C24_GroupsInSlotOrder ==
    /\ pc \in {"club", "clubV2"} =>
           /\ Len(sOut.sessions) \in 0..4 /\ Len(sOut.testimonials) \in 0..3
           /\ Len(sOut.benefits) \in 0..6 /\ Len(sOut.faqs) \in 0..5
    /\ pc = "club" =>
           /\ SessionKeys(sOut) = SlotsInOrder(Coerced, sIn, 19, 3, 4, 0, 1)
           /\ AuthorKeys(sOut) = SlotsInOrder(Coerced, sIn, 31, 3, 3, 0, 2)
           /\ BenefitKeys(sOut) = SlotsInOrder(Coerced, sIn, 40, 3, 6, 1, 2)
           /\ FaqKeys(sOut) = SlotsInOrder(Coerced, sIn, 60, 2, 5, 0, 1)
    /\ pc = "clubV2" =>
           /\ SessionKeys(sOut) = SlotsInOrder(CellText, sIn, 19, 3, 4, 0, 1)
           /\ NameKeys(sOut) = SlotsInOrder(CellText, sIn, 31, 3, 3, 0, 2)
           /\ BenefitKeys(sOut) = SlotsInOrder(CellText, sIn, 40, 3, 6, 1, 2)
           /\ FaqKeys(sOut) = SlotsInOrder(CellText, sIn, 60, 2, 5, 0, 1)

C24_Witness ==
    /\ pc = "club"
    /\ Len(sOut.benefits) = 6 /\ sOut.benefits[1] = sOut.benefits[2]
    /\ Len(sOut.sessions) = 3
    /\ sOut.sessions[1].time = <<"6", "p", "m">> /\ sOut.sessions[3].time = <<"9", "p", "m">>
    /\ Len(sOut.faqs) = 5 /\ Len(sOut.testimonials) = 3

\* the groups of the schema: field, base column, stride, slot count
Groups == {<<"sessions", 19, 3, 4>>, <<"testimonials", 31, 3, 3>>,
           <<"benefits", 40, 3, 6>>, <<"faqs", 60, 2, 5>>}

\* the canonical scalar fields of a decoder with their columns; image_url is read
\* from column 84 by the current parseClubData and built from a template before
ScalarFields(label) ==
    StringFields \cup FloatFields \cup IntFields
        \cup (IF label = "club" THEN {<<"image_url", 84>>} ELSE {})

\* the columns (from 0) where two rows of the same length differ
DiffCols(row, base) == {i - 1 : i \in {j \in 1..Len(row) : row[j] # base[j]}}

\* the sequence without its k-th element
RemoveAt(arr, k) == SubSeq(arr, 1, k - 1) \o SubSeq(arr, k + 1, Len(arr))

\* the decode of the dense row by the decoder that produced sOut
DenseDecoded == IF pc = "club" THEN parseClubData(DenseRow) ELSE parseClubDataV2(DenseRow)

\* C26: the columns read for canonical fields do not overlap: a change of one
\* cell changes the one scalar field of that column and no other, or the one slot
\* i of the one group with base b and stride s for which the column lies in
\* b + i*s .. b + i*s + s - 1 (sessions 19/3, testimonials 31/3, benefits 40/3,
\* FAQs 60/2), and leaves every other field, group and slot as it was.
C26_ColumnsDoNotOverlap ==
    (pc \in {"club", "clubV2"} /\ Len(sIn) = Len(DenseRow)
                               /\ Cardinality(DiffCols(sIn, DenseRow)) = 1) =>
        LET c == CHOOSE x \in DiffCols(sIn, DenseRow) : TRUE
            base == DenseDecoded
            changedScalars == {f \in ScalarFields(pc) : sOut[f[1]] # base[f[1]]}
            changedGroups == {g \in Groups : sOut[g[1]] # base[g[1]]}
            slot(g) == (c - g[2]) \div g[3]
        IN  /\ Cardinality(changedScalars) + Cardinality(changedGroups) <= 1
            /\ \A f \in changedScalars : f[2] = c
            /\ \A f \in StringFields : f[2] = c => f \in changedScalars
            /\ \A g \in Groups :
                   /\ g \in changedGroups <=> c \in g[2]..(g[2] + (g[3] * g[4]) - 1)
                   /\ g \in changedGroups =>
                          RemoveAt(base[g[1]], slot(g) + 1)
                              = (IF Len(sOut[g[1]]) = g[4]
                                 THEN RemoveAt(sOut[g[1]], slot(g) + 1) ELSE sOut[g[1]])

C26_Witness ==
    /\ pc = "club" /\ Len(sIn) = Len(DenseRow)
    /\ DiffCols(sIn, DenseRow) = {62}
    /\ Cell(sIn, 62) = Sentinel
    /\ Len(sOut.faqs) = 4
    /\ sOut.savings_amount = [m |-> 25, e |-> 1]

\* the response of a request run on its own over the rows it was given
RunAlone(request, rows) ==
    IF request.endpoint = "clubs"
    THEN clubsResponse(fetchRange(rows, ClubsRangeWidth))
    ELSE clubDataResponse(fetchRange(rows, ClubDataRangeWidth), request.code)

\* C25: with several requests interleaved, each over the rows its own read
\* returned, every request's response is the one it gives when run alone over
\* those rows; a handler step changes neither the sheet nor the rows, request or
\* response of another request, and a new invocation starts without anything
\* left by an earlier one.
C25_RequestsDoNotInterfere ==
    /\ [](\A r \in Requests :
              /\ pc[r] = "done" => resps[r] = <<RunAlone(req[r], sIn[r])>>
              /\ pc[r] = "idle" => (resps[r] = <<>> /\ sIn[r] = NoValues /\ req[r] = NoRequest))
    /\ [][\A r \in Requests :
              pc'[r] # pc[r] =>
                  /\ hub' = hub
                  /\ pc[r] \in {"fetched", "done"} => sIn'[r] = sIn[r] \/ pc'[r] = "idle"
                  /\ \A q \in Requests \ {r} :
                         /\ req'[q] = req[q] /\ resps'[q] = resps[q]
                         /\ sIn'[q] = sIn[q] /\ pc'[q] = pc[q]]_vars

C25_Witness ==
    /\ pc[1] = "done" /\ pc[2] = "done"
    /\ req[1].endpoint = "clubs" /\ req[2].endpoint = "clubData"
    /\ sIn[1] # sIn[2] /\ sIn[2] # hub
    /\ Len(resps[1][1].body) = 2
    /\ resps[2][1].kind = "club"

\* the data rows as the previous revision of the lookup sees them
DataRowsV2 == RowsAfterHeader(fetchRange(hub, ClubDataV2RangeWidth).values)

\* row i of the legacy sheet is active and has the requested code
LegacyMatches(rows, i, code) ==
    /\ Len(rows[i]) >= 24
    /\ rows[i][2] # <<>> /\ toLowerCase(rows[i][2]) = toLowerCase(code)
    /\ rows[i][24] = Yes

\* the lookup answered for some row set with a header: a record only if it is the
\* decode of an active data row with the requested slug, not-found otherwise
FromActiveDataRow(matching, rows, decode(_)) ==
    IF matching = {} THEN Resp.kind = "notFound"
    ELSE Resp.kind = "club" /\ \E i \in matching : Resp.body = decode(rows[i])

\* C27: the lookup never returns a record decoded from the header row or from an
\* inactive row, whatever its id or name: when only such rows have the requested
\* slug the outcome is not-found, and a record returned is that of an active data
\* row; in the current lookup, the previous revision and the legacy one.
C27_NoRecordFromHeaderOrInactive ==
    /\ (Done("clubData") /\ Resp # NoClubData /\ Truthy(req.code)) =>
           FromActiveDataRow({i \in 1..Len(DataRows) : Matches(DataRows, i, req.code)},
                             DataRows, parseClubData)
    /\ (Done("clubDataV2") /\ Resp # NoClubData /\ Truthy(req.code)) =>
           FromActiveDataRow({i \in 1..Len(DataRowsV2) : Matches(DataRowsV2, i, req.code)},
                             DataRowsV2, parseClubDataV2)
    /\ (Done("clubDataLegacy") /\ Resp # LegacyNoClubData /\ Truthy(req.code)) =>
           FromActiveDataRow({i \in 1..Len(LegacyRowsFetched) :
                                  LegacyMatches(LegacyRowsFetched, i, req.code)},
                             LegacyRowsFetched, parseClubDataLegacy)

C27_Witness ==
    /\ Done("clubData")
    /\ hub = Sheet(<<HeaderLikeRow, RowInactive>>)
    /\ req.code = <<"a", "1">>
    /\ Resp.kind = "notFound"

LookupEndpoints == {"clubData", "clubDataV2", "clubDataLegacy"}

\* the request fails a check the handler makes before it calls the data source
FailsValidation ==
    \/ req.method # "GET"
    \/ req.endpoint \in LookupEndpoints /\ ~Truthy(req.code)

\* C28: validation comes before any read: OPTIONS is answered 200, another
\* non-GET method 405, a lookup GET without a code 400, each with one response and
\* no read of the data source; the data source is read only for a GET that passed
\* these checks.
C28_ValidationBeforeRead ==
    /\ reads > 0 => (req.endpoint # "none" /\ ~FailsValidation)
    /\ (pc = "done" /\ FailsValidation) =>
           /\ reads = 0
           /\ Len(resps) = 1
           /\ Resp.status = (IF req.method = "OPTIONS" THEN 200
                             ELSE IF req.method # "GET" THEN 405 ELSE 400)
    /\ (pc = "done" /\ ~FailsValidation) => reads = 1

C28_Witness ==
    /\ pc = "done"
    /\ req.endpoint = "clubData" /\ req.method = "GET" /\ req.code = <<>>
    /\ hub # NoValues /\ Len(hub.values) > 1
    /\ resps = <<CodeRequired>> /\ reads = 0

\* the data source returned no rows at all: no values member, or a zero-length one
NoRowsAtAll(sheet) == ~sheet.hasValues \/ sheet.values = <<>>

\* the data source returned the header row and nothing else
HeaderOnly(sheet) == sheet.hasValues /\ Len(sheet.values) = 1

\* C29: with no rows at all the list and the lookup answer 404 'No club data
\* found ...'; with the header row alone the list answers 200 with an empty list
\* and the lookup the not-found result with an empty diagnostic list.
C29_NoRowsAndHeaderOnly ==
    /\ (Done("clubs") /\ ~FailsValidation) =>
           /\ NoRowsAtAll(hub) =>
                  /\ Resp.status = 404 /\ Resp.kind = "error"
                  /\ Resp.body.error = "No club data found in Dynamic Club Page Hub sheet"
           /\ HeaderOnly(hub) => Resp = Response(200, "clubs", <<>>)
    /\ (Done("clubData") /\ ~FailsValidation) =>
           /\ NoRowsAtAll(hub) =>
                  /\ Resp.status = 404 /\ Resp.kind = "error"
                  /\ Resp.body.error = "No club data found in Dynamic Club Page Hub sheet"
           /\ HeaderOnly(hub) =>
                  /\ Resp.status = 404 /\ Resp.kind = "notFound"
                  /\ Resp.body.debug_info.searched_code = req.code
                  /\ Resp.body.debug_info.available_codes = <<>>
                  /\ Resp.body.debug_info.total_active_clubs = 0

C29_Witness ==
    /\ Done("clubData") /\ req.code = <<"a", "1">>
    /\ hub = Sheet(<<HeaderLikeRow>>)
    /\ Resp.kind = "notFound" /\ Resp.body.debug_info.available_codes = <<>>

-----------------------------------------------------------------------------
(* Properties of getColumnLetter                                           *)

\* the place of a letter in the alphabet, from 1
LetterRank(c) == CHOOSE i \in 1..26 : UpperChars[i] = c

\* the index a column name stands for in bijective base 26: A is 0, Z 25, AA 26
RECURSIVE NameIndexFrom(_, _)
NameIndexFrom(name, acc) ==
    IF name = <<>> THEN acc - 1
    ELSE NameIndexFrom(Tail(name), (acc * 26) + LetterRank(name[1]))

\* the index/letter pairs of the claim and of the key_columns_check labels
KnownColumns == {<<0, <<"A">>>>, <<1, <<"B">>>>, <<2, <<"C">>>>, <<5, <<"F">>>>, <<7, <<"H">>>>,
                 <<8, <<"I">>>>, <<11, <<"L">>>>, <<13, <<"N">>>>, <<25, <<"Z">>>>,
                 <<26, <<"A", "A">>>>, <<78, <<"C", "A">>>>, <<79, <<"C", "B">>>>,
                 <<83, <<"C", "F">>>>}

\* C30: getColumnLetter ends for every index from 0 and gives the column name in
\* bijective base 26: a non-empty word over A..Z that stands for that index and no
\* other, so distinct indices have distinct names; 0 is A, 25 Z, 26 AA, 78 CA and
\* 83 CF, as in the key-column labels.
C30_ColumnNameIsBijectiveBase26 ==
    pc = "done" =>
        /\ sOut # <<>>
        /\ \A i \in 1..Len(sOut) : sOut[i] \in Range(UpperChars)
        /\ NameIndexFrom(sOut, 0) = sIn
        /\ Len(sOut) = (IF sIn < 26 THEN 1 ELSE IF sIn < 702 THEN 2 ELSE 3)
        /\ \A k \in KnownColumns : sIn = k[1] => sOut = k[2]

C30_Witness ==
    /\ pc = "done"
    /\ sIn = 702
    /\ sOut = <<"A", "A", "A">>

=============================================================================
